---- MODULE Spec2Model ----
(***************************************************************************)
(* A state-machine model of the FAT32 driver of soypat/fat: the exported   *)
(* API of exported.go (Mount, OpenFile, Read, Write, Sync, Close, OpenDir, *)
(* ForEachFile) over the internals of fat.go, on a block device holding a  *)
(* small FAT32 volume.                                                     *)
(*                                                                         *)
(* Representation.  A sector is a sparse function from byte offsets to     *)
(* values; an absent offset reads as 0.  A little-endian field is kept     *)
(* whole: a 16-bit field in the cell of its first byte, a 32-bit field as  *)
(* its low 28 bits in the cell of its first byte and its high 4 bits in    *)
(* the cell of its fourth byte (TLC integers are 32-bit signed, so a       *)
(* uint32 cannot be one integer).  A string field (OEM name, file system   *)
(* type, 8.3 name) is one token in the cell of its first byte.  File data  *)
(* is one value per byte.  The device is a sparse function from LBA to     *)
(* sector.                                                                 *)
(***************************************************************************)
EXTENDS Integers, Sequences, FiniteSets, TLC

\* ---------------------------------------------------------------- bounds
\* log2 of the sector size (Mount's blockSize and BPB BytsPerSec)
SSBits == 9
\* log2 of the cluster size in sectors (BPB SecPerClus)
CSBits == 1
\* number of API calls explored from the initial state
MaxOps == 7
\* the same, where the calls take many different arguments
MaxWide == 4
\* the same, where Mount is called until FS.id wraps around
MaxGen == 32773

SectorSize == 2^SSBits
ClusterSize == 2^CSBits
ClusterBytes == SectorSize * ClusterSize

\* ------------------------------------------------------------- constants
\* 0xFFFFFFFF.  TLC cannot hold it, so it is written as the largest TLC
\* integer; Hi4 and Lo28 below give it its true bit pattern.
maxu32 == 2147483647
badLBA == maxu32
mask28bits == 268435455
maxu16 == 65535
\* the number of values of FS.id, a uint16
idModulus == 65536

frOK == 0
frDiskErr == 1
frIntErr == 2
frNoFile == 4
frNoPath == 5
frInvalidName == 6
frDenied == 7
frExist == 8
frInvalidObject == 9
frWriteProtected == 10
frNoFilesystem == 13
frInvalidParameter == 19
frUnsupported == 20

drOK == 0
drError == 1
drWriteProtected == 2
drParError == 4

fstypeUnknown == 0
fstypeFAT12 == 1
fstypeFAT16 == 2
fstypeFAT32 == 3
fstypeExFAT == 4

bootsectorstatusFAT == 0
bootsectorstatusExFAT == 1
bootsectorstatusNotFATValidBS == 2
bootsectorstatusNotFATInvalidBS == 3
bootsectorstatusDiskError == 4

\* access mode and handle status flags (FatFs FA_* values)
faRead == 1
faWrite == 2
faCreateNew == 4
faCreateAlways == 8
faOpenAlways == 16
faSEEKEND == 32
faOpenAppend == 48
faMODIFIED == 64
faDIRTY == 128

ModeRead == faRead
ModeWrite == faWrite
ModeRW == 3
ModeCreateAlways == faCreateAlways
allowedModes == 63

\* directory entry attributes (FatFs AM_* values)
amRDO == 1
amVOL == 8
amDIR == 16
amARC == 32
amLFN == 15
amMASK == 63

\* directory entry layout
dirNameOff == 0
dirAttrOff == 11
dirCrtTimeOff == 14
dirLstAccDateOff == 18
dirFstClusHIOff == 20
dirModTimeOff == 22
dirFstClusLOOff == 26
dirFileSizeOff == 28
sizeDirEntry == 32
maxDIR == 2097152
mskDDEM == 229
mskRDDEM == 5
mskLLEF == 64
dirNTresOff == 12
\* long-name entry layout
ldirOrdOff == 0
ldirAttrOff == 11
ldirTypeOff == 12
ldirChksumOff == 13
ldirFstClusLO_Off == 26
lfnOffsets == <<1, 3, 5, 7, 9, 14, 16, 18, 20, 22, 24, 28, 30>>
lfnBufSize == 255
sfnBufSize == 12

nsLOSS == 1
nsLFN == 2
nsLAST == 4
nsBODY == 8
nsEXT == 16
nsDOT == 32
nsNOLFN == 64
nsNONAME == 128

\* boot sector and FSInfo layout
bsJmpBoot == 0
bsOEMName == 3
bpbBytsPerSec == 11
bpbSecPerClus == 13
bpbRsvdSecCnt == 14
bpbNumFATs == 16
bpbRootEntCnt == 17
bpbTotSec16 == 19
bpbFATSz16 == 22
bpbTotSec32 == 32
bpbFATSz32 == 36
bpbFSVer32 == 42
bpbRootClus32 == 44
bpbFSInfo32 == 48
bsFilSysType32 == 82
bs55AA == 510
offsetMBRTable == 446
fsiLeadSig == 0
fsiStrucSig == 484
fsiFree_Count == 488
fsiNxt_Free == 492
clustMaxFAT12 == 4085
clustMaxFAT16 == 65525
clustMaxFAT32 == 268435445

\* ------------------------------------------------------------ bit helpers
Has(m, bit) == (m \div bit) % 2 = 1
RECURSIVE BitAnd(_, _)
BitAnd(a, b) ==
    IF a = 0 \/ b = 0 THEN 0
    ELSE (IF a % 2 = 1 /\ b % 2 = 1 THEN 1 ELSE 0) + 2 * BitAnd(a \div 2, b \div 2)
BitOr(a, b) == a + b - BitAnd(a, b)
BitClear(a, b) == a - BitAnd(a, b)
Min(a, b) == IF a < b THEN a ELSE b
Max(a, b) == IF a > b THEN a ELSE b

\* the two parts of a uint32
Hi4(v) == IF v = maxu32 THEN 15 ELSE v \div 268435456
Lo28(v) == IF v = maxu32 THEN mask28bits ELSE v % 268435456
\* the uint32 of two parts; a value of 2^31 or more other than 0xFFFFFFFF
\* has no TLC integer and is not produced on the volumes modelled here
U32(hi, lo) ==
    IF hi < 8 THEN hi * 268435456 + lo ELSE maxu32
\* a - b in uint32 arithmetic, for operands below 2^31: a wrapped result is
\* at least 2^31 and is only ever compared with a small count
Sub32(a, b) == IF a >= b THEN a - b ELSE maxu32
\* the two halves of a uint32
Hi16(v) == IF v = maxu32 THEN 65535 ELSE v \div 65536
Lo16(v) == IF v = maxu32 THEN 65535 ELSE v % 65536
\* the uint32 of a high and a low half that carry into and out of 16 bits
Wrap32(hi, lo) ==
    U32(((hi + lo \div 65536) % 65536) \div 4096,
        ((hi + lo \div 65536) % 4096) * 65536 + (lo % 65536))
\* a + b and a + b * n + c in uint32 arithmetic, n below 2^14; only the
\* result is cut to 32 bits
Add32(a, b) == Wrap32(Hi16(a) + Hi16(b), Lo16(a) + Lo16(b))
MulAdd32(a, b, n, c) ==
    Wrap32(Hi16(a) + Hi16(b) * n + Hi16(c), Lo16(a) + Lo16(b) * n + Lo16(c))

\* ------------------------------------------------------------- sectors
\* the function f with the value at each element of its domain computed
Mat(f) == f @@ <<>>
EmptySect == [k \in {} |-> 0]
Get(sec, off) == IF off \in DOMAIN sec THEN sec[off] ELSE 0
Put(sec, off, v) ==
    LET D == IF v = 0 THEN DOMAIN sec \ {off} ELSE DOMAIN sec \cup {off}
    IN  Mat([k \in D |-> IF k = off THEN v ELSE sec[k]])
\* sec after the stores ups, a sequence of <<offset, value>>, made in order
Puts(sec, ups) ==
    LET offs == {ups[i][1] : i \in DOMAIN ups}
        lastAt(k) == CHOOSE i \in DOMAIN ups :
                        ups[i][1] = k /\ \A j \in DOMAIN ups : ups[j][1] = k => j <= i
        val(k) == IF k \in offs THEN ups[lastAt(k)][2] ELSE sec[k]
    IN  Mat([k \in {x \in DOMAIN sec \cup offs : val(x) # 0} |-> val(k)])
\* the stores of binary.LittleEndian.PutUint16 and PutUint32 at off
PutUint16(off, v) == <<<<off + 1, 0>>, <<off, v>>>>
PutUint32(off, v) == <<<<off + 1, 0>>, <<off + 2, 0>>, <<off + 3, Hi4(v)>>, <<off, Lo28(v)>>>>
\* the stores of copy(sec[off:], b)
CopyTo(off, b) == [i \in 1..Len(b) |-> <<off + i - 1, b[i]>>]
GetU16(sec, off) == Get(sec, off)
PutU16(sec, off, v) == Puts(sec, PutUint16(off, v))
GetU32(sec, off) == U32(Get(sec, off + 3), Get(sec, off))
PutU32(sec, off, v) == Puts(sec, PutUint32(off, v))
\* len bytes of a sector starting at off, as a byte sequence
Bytes(sec, off, len) == Mat([i \in 1..len |-> Get(sec, off + i - 1)])
\* the sector holding the bytes b[from+1 .. from+SectorSize]
SectOf(b, from) ==
    [k \in {j \in 0..(SectorSize - 1) : b[from + j + 1] # 0} |-> b[from + k + 1]]
\* sec with the bytes b[from+1 .. from+len] copied to offset off
Copy(sec, off, b, from, len) ==
    LET W == off..(off + len - 1)
        D == (DOMAIN sec \ W) \cup {k \in W : b[from + (k - off) + 1] # 0}
    IN  Mat([k \in D |-> IF k \in W THEN b[from + (k - off) + 1] ELSE sec[k]])

\* the block device: sparse map from LBA to sector
DevGet(d, lbaN) == IF lbaN \in DOMAIN d THEN d[lbaN] ELSE EmptySect
DevPut(d, lbaN, sec) ==
    LET D == IF sec = EmptySect THEN DOMAIN d \ {lbaN} ELSE DOMAIN d \cup {lbaN}
    IN  Mat([k \in D |-> IF k = lbaN THEN sec ELSE d[k]])
RECURSIVE DevPutN(_, _, _, _)
DevPutN(d, lbaN, secs, i) ==
    IF i > Len(secs) THEN d
    ELSE DevPutN(DevPut(d, lbaN + i - 1, secs[i]), lbaN, secs, i + 1)

\* ------------------------------------------------------------ the volume
\* The driver's functions call each other through invoke, a recursive operator,
\* so that TLC's coverage expands each function once and not once per call path.
RECURSIVE invoke(_, _)

\* Geometry of the volume on the device (the layout of the repository's
\* test image: 32 reserved sectors, two FATs of 15336 sectors, root
\* directory in cluster 2, FSInfo in sector 1).
RsvdSecCnt == 32
FATSz32 == 15336
TotSec32 == 15730640
DataBase == RsvdSecCnt + 2 * FATSz32
\* number of blocks of the device
DevBlocks == 32000

\* A machine state m is [dev, fs, io, bad, fuse]: the device contents, the FS
\* struct, the log of device calls issued by the running API call, whether
\* the device currently fails every transfer, and the number of transfers
\* after which it starts to fail (NoFuse: it does not).
NoFuse == 0 - 1
\* the device fails the transfer asked of it
Failing(m) == m.bad \/ m.fuse = 0
\* a device call enters the log with its outcome; one that succeeds uses up
\* one transfer of the fuse
Log(m, kind, sector, n, ok) ==
    [m EXCEPT !.io = Append(@, <<kind, sector, n, ok>>),
              !.fuse = IF ok /\ @ > 0 THEN @ - 1 ELSE @]

\* fs.blk.off and fs.blk._divideBlockSize (a zero FS has the zero indexer)
blk_off(fsys, n) == IF fsys.ssize = 0 THEN 0 ELSE n % fsys.ssize
blk_div(fsys, n) == IF fsys.ssize = 0 THEN n ELSE n \div fsys.ssize

\* buflen is len(buf); secs are the sectors the buffer holds
disk_write(m, buflen, secs, sector, numsectors) ==
    IF ~Has(m.fs.perm, ModeWrite) THEN [m |-> m, dr |-> drWriteProtected]
    ELSE IF blk_off(m.fs, buflen) # 0 \/ blk_div(m.fs, buflen) # numsectors
    THEN [m |-> m, dr |-> drParError]
    ELSE IF Failing(m) \/ sector >= DevBlocks \/ sector + numsectors > DevBlocks
    THEN [m |-> Log(m, "write", sector, numsectors, FALSE), dr |-> drError]
    ELSE [m |-> [Log(m, "write", sector, numsectors, TRUE)
                    EXCEPT !.dev = DevPutN(m.dev, sector, secs, 1)],
          dr |-> drOK]

\* buflen is len(dst); secs are the sectors read into dst
disk_read(m, buflen, sector, numsectors) ==
    IF blk_off(m.fs, buflen) # 0 \/ blk_div(m.fs, buflen) # numsectors
    THEN [m |-> m, dr |-> drParError, secs |-> <<>>]
    ELSE IF Failing(m) \/ sector >= DevBlocks \/ sector + numsectors > DevBlocks
    THEN [m |-> Log(m, "read", sector, numsectors, FALSE), dr |-> drError, secs |-> <<>>]
    ELSE [m |-> Log(m, "read", sector, numsectors, TRUE), dr |-> drOK,
          secs |-> [i \in 1..numsectors |-> DevGet(m.dev, sector + i - 1)]]

disk_erase(m, startSector, numSectors) ==
    IF Failing(m) \/ numSectors <= 0 \/ startSector >= DevBlocks
       \/ startSector + numSectors > DevBlocks
    THEN [m |-> Log(m, "erase", startSector, numSectors, FALSE), dr |-> drError]
    ELSE [m |-> [Log(m, "erase", startSector, numSectors, TRUE)
                    EXCEPT !.dev = DevPutN(m.dev, startSector,
                                           [i \in 1..numSectors |-> EmptySect], 1)],
          dr |-> drOK]

divSS(fsys, n) == n \div fsys.ssize
modSS(fsys, n) == n % fsys.ssize

\* sync_window that writes the first FAT only
sync_window_single(m) ==
    IF m.fs.wflag = 0 THEN [m |-> m, fr |-> frOK]
    ELSE
      LET w == invoke("disk_write", <<m, SectorSize, <<m.fs.win>>, m.fs.winsect, 1>>)
      IN  IF w.dr # drOK THEN [m |-> w.m, fr |-> frDiskErr]
          ELSE [m |-> [w.m EXCEPT !.fs.wflag = 0], fr |-> frOK]

sync_window(m) ==
    IF m.fs.wflag = 0 THEN [m |-> m, fr |-> frOK]
    ELSE
      LET w == invoke("disk_write", <<m, SectorSize, <<m.fs.win>>, m.fs.winsect, 1>>)
      IN  IF w.dr # drOK THEN [m |-> w.m, fr |-> frDiskErr]
          ELSE
            LET f  == w.m.fs
                m2 == IF f.nFATs = 2 /\ Sub32(f.winsect, f.fatbase) < f.fsize
                      THEN invoke("disk_write", <<w.m, SectorSize, <<f.win>>,
                                      f.winsect + f.fsize, 1>>).m
                      ELSE w.m
            IN  [m |-> [m2 EXCEPT !.fs.wflag = 0], fr |-> frOK]

move_window(m, sector) ==
    IF sector = m.fs.winsect THEN [m |-> m, fr |-> frOK]
    ELSE
      LET s == invoke("sync_window", <<m>>)
      IN  IF s.fr # frOK THEN s
          ELSE
            LET r == invoke("disk_read", <<s.m, SectorSize, sector, 1>>)
            IN  IF r.dr # drOK
                THEN [m |-> [r.m EXCEPT !.fs.winsect = badLBA], fr |-> frDiskErr]
                ELSE [m |-> [r.m EXCEPT !.fs.winsect = sector, !.fs.win = r.secs[1]],
                      fr |-> frOK]

invalidate_window(m) == [m EXCEPT !.fs.wflag = 0, !.fs.winsect = badLBA]

clst2sect(fsys, clst) ==
    IF clst < 2 \/ clst - 2 >= fsys.n_fatent - 2 THEN 0
    ELSE fsys.database + fsys.csize * (clst - 2)

clusterstat(m, clst) ==
    IF clst < 2 \/ clst >= m.fs.n_fatent THEN [m |-> m, val |-> 1]
    ELSE IF m.fs.fstype # fstypeFAT32 THEN [m |-> m, val |-> 1]
    ELSE
      LET sect == m.fs.fatbase + divSS(m.fs, clst) \div 2
          w    == invoke("move_window", <<m, sect>>)
      IN  IF w.fr # frOK THEN [m |-> w.m, val |-> maxu32]
          ELSE [m |-> w.m, val |-> Get(w.m.fs.win, modSS(m.fs, clst * 4))]

\* the high and the low part of (value * mask28bits) mod 2^32:
\* value * (2^28 - 1) = (value mod 16) * 2^28 - value  (mod 2^32)
MulMask28Lo(value) == (268435456 - Lo28(value)) % 268435456
MulMask28Hi(value) ==
    ((Lo28(value) % 16) - Hi4(value) - (IF Lo28(value) = 0 THEN 0 ELSE 1) + 32) % 16

put_clusterstat(m, cluster, value) ==
    IF cluster < 2 \/ cluster >= m.fs.n_fatent THEN [m |-> m, fr |-> frDiskErr]
    ELSE IF m.fs.fstype \notin {fstypeFAT32, fstypeExFAT} THEN [m |-> m, fr |-> frDiskErr]
    ELSE
      LET sect   == m.fs.fatbase + divSS(m.fs, cluster) \div 4
          w      == invoke("move_window", <<m, sect>>)
          winIdx == modSS(m.fs, cluster * 4)
          win    == w.m.fs.win
          lo     == MulMask28Lo(value)
          hi     == BitOr(MulMask28Hi(value), Get(win, winIdx + 3))
      IN  IF w.fr # frOK THEN [m |-> w.m, fr |-> frOK]
          ELSE [m |-> [w.m EXCEPT !.fs.win = Put(Put(Put(Put(win, winIdx + 1, 0),
                                                   winIdx + 2, 0), winIdx + 3, hi),
                                                 winIdx, lo),
                                  !.fs.wflag = 1],
                fr |-> frOK]

\* ---------------------------------------------------- FAT chain operations
RECURSIVE create_chain_scan(_, _, _)
\* the loop of create_chain that looks for a free cluster after scl;
\* ncl is the cluster tried last
create_chain_scan(m, scl, ncl) ==
    LET inc  == ncl + 1
        wrap == inc >= m.fs.n_fatent
        n1   == IF wrap THEN 2 ELSE inc
    IN  IF wrap /\ n1 > scl THEN [m |-> m, ncl |-> 0, done |-> TRUE]
        ELSE
          LET c == invoke("clusterstat", <<m, n1>>)
          IN  IF c.val = 0 THEN [m |-> c.m, ncl |-> n1, done |-> FALSE]
              ELSE IF c.val = 1 \/ c.val = maxu32
              THEN [m |-> c.m, ncl |-> c.val, done |-> TRUE]
              ELSE IF n1 = scl THEN [m |-> c.m, ncl |-> 0, done |-> TRUE]
              ELSE create_chain_scan(c.m, scl, n1)

\* the tail of create_chain: mark ncl end-of-chain and link it after clst
create_chain_link(m, clst, ncl) ==
    LET p1 == invoke("put_clusterstat", <<m, ncl, maxu32>>)
        p2 == IF p1.fr = frOK /\ clst # 0 THEN invoke("put_clusterstat", <<p1.m, clst, ncl>>) ELSE p1
        f  == p2.m.fs
    IN  IF p2.fr = frOK
        THEN [m |-> [p2.m EXCEPT !.fs.last_clst = ncl,
                                 !.fs.free_clst = IF f.free_clst <= f.n_fatent - 2
                                                  THEN (IF f.free_clst = 0 THEN maxu32
                                                        ELSE f.free_clst - 1)
                                                  ELSE f.free_clst,
                                 !.fs.fsi_flag = BitOr(f.fsi_flag, 1)],
              val |-> ncl]
        ELSE [m |-> p2.m, val |-> IF p2.fr = frDiskErr THEN maxu32 ELSE 1]

create_chain(m, clst) ==
    LET cs0 == IF clst = 0 THEN [m |-> m, val |-> 0] ELSE invoke("clusterstat", <<m, clst>>)
        m0  == cs0.m
        scl0 == IF clst = 0
                THEN (IF m.fs.last_clst = 0 \/ m.fs.last_clst >= m.fs.n_fatent
                      THEN 1 ELSE m.fs.last_clst)
                ELSE clst
    IN  IF clst # 0 /\ cs0.val < 2 THEN [m |-> m0, val |-> 1]
        ELSE IF clst # 0 /\ (cs0.val = maxu32 \/ cs0.val < m.fs.n_fatent)
        THEN [m |-> m0, val |-> cs0.val]
        ELSE IF m0.fs.free_clst = 0 THEN [m |-> m0, val |-> 0]
        ELSE IF m0.fs.fstype = fstypeExFAT THEN [m |-> m0, val |-> 1]
        ELSE
          LET contig == scl0 = clst
              n1  == IF scl0 + 1 >= m0.fs.n_fatent THEN 2 ELSE scl0 + 1
              c1  == IF contig THEN invoke("clusterstat", <<m0, n1>>) ELSE [m |-> m0, val |-> 0]
              m1  == c1.m
              lc  == m1.fs.last_clst
              scl == IF contig /\ c1.val # 0 /\ lc >= 2 /\ lc < m1.fs.n_fatent
                     THEN lc ELSE scl0
              ncl == IF contig /\ c1.val = 0 THEN n1 ELSE 0
          IN  IF contig /\ (c1.val = 1 \/ c1.val = maxu32) THEN [m |-> m1, val |-> c1.val]
              ELSE IF ncl # 0 THEN invoke("create_chain_link", <<m1, clst, ncl>>)
              ELSE
                LET sc == invoke("create_chain_scan", <<m1, scl, scl>>)
                IN  IF sc.done THEN [m |-> sc.m, val |-> sc.ncl]
                    ELSE invoke("create_chain_link", <<sc.m, clst, sc.ncl>>)

RECURSIVE remove_chain_loop(_, _)
remove_chain_loop(m, clst) ==
    IF ~(clst < m.fs.n_fatent) THEN [m |-> m, fr |-> frOK]
    ELSE
      LET c == invoke("clusterstat", <<m, clst>>)
      IN  IF c.val = 0 THEN [m |-> c.m, fr |-> frOK]
          ELSE IF c.val = 1 THEN [m |-> c.m, fr |-> frIntErr]
          ELSE IF c.val = maxu32 THEN [m |-> c.m, fr |-> frDiskErr]
          ELSE
            LET p  == invoke("put_clusterstat", <<c.m, clst, 0>>)
                f  == p.m.fs
                m2 == IF f.free_clst < f.n_fatent - 2
                      THEN [p.m EXCEPT !.fs.free_clst = f.free_clst + 1,
                                       !.fs.fsi_flag = BitOr(f.fsi_flag, 1)]
                      ELSE p.m
            IN  IF p.fr # frOK THEN p ELSE remove_chain_loop(m2, c.val)

remove_chain(m, clst, pclst) ==
    IF clst < 2 \/ clst >= m.fs.n_fatent THEN [m |-> m, fr |-> frIntErr]
    ELSE
      LET p == IF pclst # 0 THEN invoke("put_clusterstat", <<m, pclst, maxu32>>) ELSE [m |-> m, fr |-> frOK]
      IN  IF p.fr # frOK THEN p ELSE invoke("remove_chain_loop", <<p.m, clst>>)

window_clr(m) == [m EXCEPT !.fs.win = EmptySect]

dir_clear(m, clst) ==
    LET s == invoke("sync_window", <<m>>)
    IN  IF s.fr # frOK THEN [m |-> s.m, fr |-> frDiskErr]
        ELSE
          LET sect == clst2sect(s.m.fs, clst)
              m1   == window_clr([s.m EXCEPT !.fs.winsect = sect])
              e    == invoke("disk_erase", <<m1, sect, m1.fs.csize>>)
          IN  [m |-> e.m, fr |-> IF e.dr # drOK THEN frDiskErr ELSE frOK]

\* FS.sync: flush the window, then rewrite FSInfo when it is out of date
fs_sync(m) ==
    LET s == invoke("sync_window", <<m>>)
        f == s.m.fs
    IN  IF s.fr = frOK /\ f.fstype = fstypeFAT32 /\ f.fsi_flag = 1
        THEN
          LET w  == PutU32(PutU32(PutU32(PutU32(PutU16(EmptySect, bs55AA, 43605),
                        fsiLeadSig, 1096897106), fsiStrucSig, 1631679090),
                        fsiFree_Count, f.free_clst), fsiNxt_Free, f.last_clst)
              m1 == [s.m EXCEPT !.fs.win = w, !.fs.winsect = f.volbase + 1]
              d  == invoke("disk_write", <<m1, SectorSize, <<w>>, f.volbase + 1, 1>>)
          IN  [m |-> [d.m EXCEPT !.fs.fsi_flag = 0], fr |-> s.fr]
        ELSE s

\* ------------------------------------------------------ directory objects
\* A dir d is [fs, id, attr, sclust, dptr, clust, sect, dir, fn, ns]:
\* fs is "obj.fs is not nil", dir is the offset in fs.win that the slice
\* dp.dir aliases, fn the first 11 bytes of dp.fn and ns its status byte
\* fn[nsFLAG]; info is the FileInfo that a Dir carries.
ZeroFileInfo ==
    [fname |-> <<>>, altname |-> [k \in 0..sfnBufSize |-> 0], fattrib |-> 0, fsize |-> 0]
ZeroDir ==
    [fs |-> FALSE, id |-> 0, attr |-> 0, sclust |-> 0, dptr |-> 0, clust |-> 0,
     sect |-> 0, dir |-> 0, fn |-> [k \in 1..11 |-> 0], ns |-> 0, blk_ofs |-> 0,
     info |-> ZeroFileInfo]

ld_clust(fsys, win, off) ==
    IF fsys.fstype = fstypeFAT32
    THEN GetU16(win, off + dirFstClusLOOff) + 65536 * GetU16(win, off + dirFstClusHIOff)
    ELSE GetU16(win, off + dirFstClusLOOff)

st_clust(fsys, win, off, cl) ==
    LET w == PutU16(win, off + dirFstClusLOOff, cl % 65536)
    IN  IF fsys.fstype = fstypeFAT32
        THEN PutU16(w, off + dirFstClusHIOff, (cl \div 65536) % 65536)
        ELSE w

RECURSIVE sdi_walk(_, _, _, _)
\* the loop of sdi that follows the chain to the cluster holding offset ofs
sdi_walk(m, clst, ofs, csz) ==
    IF ofs < csz THEN [m |-> m, clst |-> clst, ofs |-> ofs, fr |-> frOK]
    ELSE
      LET c == invoke("clusterstat", <<m, clst>>)
      IN  IF c.val = maxu32 THEN [m |-> c.m, clst |-> c.val, ofs |-> ofs, fr |-> frDiskErr]
          ELSE IF c.val < 2 \/ c.val >= m.fs.n_fatent
          THEN [m |-> c.m, clst |-> c.val, ofs |-> ofs, fr |-> frIntErr]
          ELSE sdi_walk(c.m, c.val, ofs - csz, csz)

sdi(m, d, ofs) ==
    IF ofs >= maxDIR THEN [m |-> m, d |-> d, fr |-> frIntErr]
    ELSE
      LET d1    == [d EXCEPT !.dptr = ofs]
          clst0 == IF d.sclust = 0 /\ m.fs.fstype >= fstypeFAT32
                   THEN m.fs.dirbase ELSE d.sclust
      IN  IF clst0 = 0
          THEN IF ofs \div sizeDirEntry >= m.fs.nrootdir
               THEN [m |-> m, d |-> d1, fr |-> frIntErr]
               ELSE IF m.fs.dirbase = 0
               THEN [m |-> m, d |-> [d1 EXCEPT !.sect = 0, !.clust = 0], fr |-> frIntErr]
               ELSE [m |-> m,
                     d |-> [d1 EXCEPT !.clust = 0,
                                      !.sect = m.fs.dirbase + divSS(m.fs, ofs),
                                      !.dir = modSS(m.fs, ofs)],
                     fr |-> frOK]
          ELSE
            LET w    == invoke("sdi_walk", <<m, clst0, ofs, m.fs.csize * m.fs.ssize>>)
                sect == clst2sect(w.m.fs, w.clst)
            IN  IF w.fr # frOK THEN [m |-> w.m, d |-> d1, fr |-> w.fr]
                ELSE IF sect = 0
                THEN [m |-> w.m, d |-> [d1 EXCEPT !.sect = 0, !.clust = w.clst],
                      fr |-> frIntErr]
                ELSE [m |-> w.m,
                      d |-> [d1 EXCEPT !.clust = w.clst,
                                       !.sect = sect + divSS(m.fs, w.ofs),
                                       !.dir = modSS(m.fs, w.ofs)],
                      fr |-> frOK]

\* dir.next: advance to the next entry, stretching the table when asked to
next(m, d, stretch) ==
    LET ofs == d.dptr + sizeDirEntry
        d0  == IF ofs >= maxDIR THEN [d EXCEPT !.sect = 0] ELSE d
        modOfs == modSS(m.fs, ofs)
        AllOK(mm, dd) == [m |-> mm, d |-> [dd EXCEPT !.dptr = ofs, !.dir = modOfs],
                          fr |-> frOK]
        d1  == [d0 EXCEPT !.sect = @ + 1]
    IN  IF d0.sect = 0 THEN [m |-> m, d |-> d0, fr |-> frNoFile]
        ELSE IF modOfs # 0 THEN AllOK(m, d0)
        ELSE IF d1.clust = 0
        THEN IF ofs \div sizeDirEntry >= m.fs.nrootdir
             THEN [m |-> m, d |-> [d1 EXCEPT !.sect = 0], fr |-> frNoFile]
             ELSE AllOK(m, d1)
        ELSE IF divSS(m.fs, ofs) % m.fs.csize # 0 THEN AllOK(m, d1)
        ELSE
          LET c == invoke("clusterstat", <<m, d1.clust>>)
          IN  IF c.val <= 1 THEN [m |-> c.m, d |-> d1, fr |-> frIntErr]
              ELSE IF c.val = maxu32 THEN [m |-> c.m, d |-> d1, fr |-> frDiskErr]
              ELSE IF c.val >= m.fs.n_fatent
              THEN IF ~stretch
                   THEN [m |-> c.m, d |-> [d1 EXCEPT !.sect = 0], fr |-> frNoFile]
                   ELSE
                     LET n == invoke("create_chain", <<c.m, 0>>)
                         k == invoke("dir_clear", <<n.m, n.val>>)
                     IN  IF n.val = 0 THEN [m |-> n.m, d |-> d1, fr |-> frDenied]
                         ELSE IF n.val = 1 THEN [m |-> n.m, d |-> d1, fr |-> frIntErr]
                         ELSE IF n.val = maxu32 THEN [m |-> n.m, d |-> d1, fr |-> frDiskErr]
                         ELSE IF k.fr # frOK THEN [m |-> k.m, d |-> d1, fr |-> frDiskErr]
                         ELSE AllOK(k.m, [d1 EXCEPT !.clust = n.val,
                                                    !.sect = clst2sect(k.m.fs, n.val)])
              ELSE AllOK(c.m, [d1 EXCEPT !.clust = c.val,
                                         !.sect = clst2sect(c.m.fs, c.val)])

\* ------------------------------------------------------------------ names
\* A name is a sequence of runes; a path is the sequence of its segments, the
\* separators between them and the NUL that f_open and f_opendir append being
\* what ends a segment.  lfnbuf and the name fields of FileInfo are sparse
\* arrays like a sector; dp.fn is the sequence of its first 11 bytes and
\* dp.fn[nsFLAG] is the field ns.
Ch == [space |-> 32, dquote |-> 34, star |-> 42, plus |-> 43, comma |-> 44,
       dot |-> 46, zero |-> 48, nine |-> 57, colon |-> 58, semi |-> 59, lt |-> 60,
       eq |-> 61, gt |-> 62, quest |-> 63, lbrack |-> 91, rbrack |-> 93,
       under |-> 95, tilde |-> 126, del |-> 127]
RuneError == 65533
\* the array a with the value c at index i
SetAt(a, i, c) == Mat([k \in DOMAIN a |-> IF k = i THEN c ELSE a[k]])
isUpper(c) == c >= 65 /\ c <= 90
isLower(c) == c >= 97 /\ c <= 122
isSurrogate(c) == c >= 55296 /\ c <= 57343
\* utf8.RuneLen and utf8.EncodeRune; a surrogate is encoded as RuneError
RuneLen(r) == IF r < 128 THEN 1 ELSE IF r < 2048 THEN 2 ELSE IF r < 65536 THEN 3 ELSE 4
EncodeRune(r) ==
    LET c == IF isSurrogate(r) THEN RuneError ELSE r
    IN  IF c < 128 THEN <<c>>
        ELSE IF c < 2048 THEN <<192 + (c \div 64), 128 + (c % 64)>>
        ELSE IF c < 65536
        THEN <<224 + (c \div 4096), 128 + ((c \div 64) % 64), 128 + (c % 64)>>
        ELSE <<240 + (c \div 262144), 128 + ((c \div 4096) % 64),
               128 + ((c \div 64) % 64), 128 + (c % 64)>>
RECURSIVE Utf8(_)
\* the bytes of the Go string that holds the runes s
Utf8(s) == IF s = <<>> THEN <<>> ELSE EncodeRune(Head(s)) \o Utf8(Tail(s))
\* unicode.ToUpper on the runes that the names of the model are made of
ff_wtoupper(c) == IF isLower(c) THEN c - 32 ELSE c
\* ff_oem2uni with the nil code page of FS: a byte of 0x80..0xFF would index
\* the empty table, and no name of the model holds one
ff_oem2uni(oem) == CASE oem < 128 -> oem [] oem >= 256 -> 0
\* the table that mount_volume stores in dbcTbl
dbc_1st(c) == (c >= 129 /\ c <= 159) \/ (c >= 224 /\ c <= 252)
dbc_2nd(c) == (c >= 64 /\ c <= 126) \/ (c >= 128 /\ c <= 252) \/ c = 0

RECURSIVE sum_sfn_loop(_, _)
\* the loop of sum_sfn; s holds the index and the sum so far
sum_sfn_loop(sfn, s) ==
    IF s.i > 11 THEN s.sum
    ELSE sum_sfn_loop(sfn, [i |-> s.i + 1,
                            sum |-> ((s.sum \div 2) + (s.sum % 2) * 128 + sfn[s.i]) % 256])
sum_sfn(sfn) == sum_sfn_loop(sfn, [i |-> 1, sum |-> 0])

\* lfnlen: the number of units of lfnbuf before the first 0
lfnlen(lfn) ==
    IF \A k \in 0..lfnBufSize : Get(lfn, k) # 0 THEN lfnBufSize + 1
    ELSE CHOOSE n \in 0..lfnBufSize :
             Get(lfn, n) = 0 /\ \A k \in 0..(n - 1) : Get(lfn, k) # 0

\* one turn of the first loop of create_name: the next rune of the segment
\* s.p is stored in s.lfn at s.di
create_name_decode_body(s) ==
    LET uc   == Head(s.p)
        high == RuneLen(uc) > 2
        lfn1 == IF high THEN Put(s.lfn, s.di, uc \div 65536) ELSE s.lfn
        di1  == IF high THEN s.di + 1 ELSE s.di
        wc   == uc % 65536
    IN  CASE s.done -> s
          [] ~s.done /\ s.p = <<>> -> [s EXCEPT !.done = TRUE]
          [] ~s.done /\ s.p # <<>> /\ uc = RuneError
             -> [s EXCEPT !.fr = frInvalidName, !.done = TRUE]
          [] ~s.done /\ s.p # <<>> /\ uc # RuneError
             /\ (\/ (wc % 256) \in {Ch.star, Ch.colon, Ch.lt, Ch.gt, 124, Ch.dquote,
                                    Ch.quest, Ch.del}
                 \/ di1 >= lfnBufSize)
             -> [s EXCEPT !.lfn = lfn1, !.di = di1, !.fr = frInvalidName, !.done = TRUE]
          [] OTHER -> [s EXCEPT !.lfn = Put(lfn1, di1, wc), !.di = di1 + 1, !.p = Tail(s.p)]
\* four turns, and sixteen: a turn after the loop has ended changes nothing
create_name_decode_4(s) ==
    create_name_decode_body(create_name_decode_body(
        create_name_decode_body(create_name_decode_body(s))))
create_name_decode_16(s) ==
    create_name_decode_4(create_name_decode_4(
        create_name_decode_4(create_name_decode_4(s))))
RECURSIVE create_name_decode_loop(_)
create_name_decode_loop(s) ==
    IF s.done THEN s ELSE create_name_decode_loop(create_name_decode_16(s))
create_name_decode(lfn, p, di) ==
    create_name_decode_loop([lfn |-> lfn, p |-> p, di |-> di, fr |-> frOK, done |-> FALSE])

\* trailing spaces and dots are dropped: the length that is left
create_name_trim(lfn, di) ==
    CHOOSE d \in 0..di :
        /\ d = 0 \/ Get(lfn, d - 1) \notin {Ch.space, Ch.dot}
        /\ \A e \in (d + 1)..di : Get(lfn, e - 1) \in {Ch.space, Ch.dot}
\* the leading spaces are skipped: the index of the first unit that counts
create_name_lead(lfn, si, di) ==
    CHOOSE x \in si..di :
        /\ x = di \/ Get(lfn, x) # Ch.space
        /\ \A e \in si..(x - 1) : Get(lfn, e) = Ch.space
\* the index after the last dot, 0 without a dot
create_name_dot(lfn, di) ==
    CHOOSE d \in 0..di :
        /\ d = 0 \/ Get(lfn, d - 1) = Ch.dot
        /\ \A e \in (d + 1)..di : Get(lfn, e - 1) # Ch.dot

\* one turn of the loop of create_name that fills the 8.3 name
create_name_sfn_body(lfn, di, s) ==
    LET wc   == Get(lfn, s.si)
        si   == s.si + 1
        loss == BitOr(s.cf, nsLOSS + nsLFN)
        put(fn, i, c) == SetAt(fn, i + 1, c % 256)
    IN  CASE s.si > lfnBufSize \/ wc = 0 -> [s EXCEPT !.done = TRUE]
          [] s.si <= lfnBufSize /\ wc # 0 /\ (wc = Ch.space \/ (wc = Ch.dot /\ si # di))
             -> [s EXCEPT !.si = si, !.cf = loss]
          [] s.si <= lfnBufSize /\ wc # 0 /\ ~(wc = Ch.space \/ (wc = Ch.dot /\ si # di))
             /\ (s.i >= s.ni \/ si = di)
             -> IF s.ni = 11 \/ si > di THEN [s EXCEPT !.si = si, !.cf = loss, !.done = TRUE]
                ELSE [s EXCEPT !.si = di, !.i = 8, !.ni = 11, !.b = (@ * 4) % 256,
                               !.cf = IF si # di THEN loss ELSE @]
          [] OTHER ->
               IF wc >= 256
               THEN IF s.i >= s.ni - 1 THEN [s EXCEPT !.si = si, !.cf = loss, !.i = s.ni]
                    ELSE [s EXCEPT !.si = si, !.i = @ + 2,
                                   !.fn = put(put(@, s.i, wc \div 256), s.i + 1, wc)]
               ELSE IF wc \in {Ch.plus, Ch.comma, Ch.semi, Ch.eq, Ch.lbrack, Ch.rbrack}
               THEN [s EXCEPT !.si = si, !.i = @ + 1, !.cf = loss,
                              !.fn = put(@, s.i, Ch.under)]
               ELSE [s EXCEPT !.si = si, !.i = @ + 1,
                              !.b = BitOr(BitOr(@, IF isUpper(wc) THEN 2 ELSE 0),
                                          IF isLower(wc) THEN 1 ELSE 0),
                              !.fn = put(@, s.i, ff_wtoupper(wc))]
RECURSIVE create_name_sfn(_, _, _)
create_name_sfn(lfn, di, s) ==
    IF s.done THEN s ELSE create_name_sfn(lfn, di, create_name_sfn_body(lfn, di, s))

\* the status byte once the 8.3 name is filled: b holds the capital flags
create_name_flags(cf, b) ==
    IF BitAnd(b, 12) = 12 \/ BitAnd(b, 3) = 3 THEN BitOr(cf, nsLFN)
    ELSE IF BitAnd(cf, nsLFN) # 0 THEN cf
    ELSE BitOr(BitOr(cf, IF BitAnd(b, 1) # 0 THEN nsEXT ELSE 0),
               IF BitAnd(b, 4) # 0 THEN nsBODY ELSE 0)
\* the end of create_name: s is the state in which the 8.3 loop stopped
create_name_result(lfn, s) ==
    [lfn |-> lfn,
     fn |-> IF s.fn[1] = mskDDEM THEN SetAt(s.fn, 1, mskRDDEM) ELSE s.fn,
     ns |-> create_name_flags(s.cf, IF s.ni = 8 THEN (s.b * 4) % 256 ELSE s.b),
     fr |-> frOK]
\* the 8.3 name of the di units of lfn, si being the first unit that counts
create_name_fill(lfn, di, si, cf) ==
    create_name_result(lfn,
        create_name_sfn(lfn, create_name_dot(lfn, di),
            [si |-> si, i |-> 0, ni |-> 8, b |-> 0,
             cf |-> IF si > 0 \/ Get(lfn, si) = Ch.dot
                    THEN BitOr(cf, nsLOSS + nsLFN) ELSE cf,
             fn |-> Mat([k \in 1..11 |-> Ch.space]), done |-> FALSE]))
\* the name of di units, trailing spaces and dots dropped: none left is a
\* null name
create_name_trimmed(lfn, di, cf) ==
    IF di = 0 THEN [lfn |-> Put(lfn, di, 0), fr |-> frInvalidName]
    ELSE create_name_fill(Put(lfn, di, 0), di, create_name_lead(Put(lfn, di, 0), 0, di), cf)
\* create_name after its first loop stored the segment in lfnbuf
create_name_decoded(dec, cf) ==
    IF dec.fr # frOK THEN [lfn |-> dec.lfn, fr |-> dec.fr]
    ELSE create_name_trimmed(dec.lfn, create_name_trim(dec.lfn, dec.di), cf)

\* dir.create_name on the first segment of path: the long name goes to
\* lfnbuf, the 8.3 name and its status to fn and ns
create_name(lfn, path) ==
    create_name_decoded(create_name_decode(lfn, Head(path), 0),
                        IF Len(path) = 1 THEN nsLAST ELSE 0)

RECURSIVE gen_numname_digits(_)
\* the hexadecimal digits of seq, stored in ns from index i downwards
gen_numname_digits(s) ==
    LET c0  == (s.seq % 16) + Ch.zero
        ns1 == SetAt(s.ns, s.i, IF c0 > Ch.nine THEN c0 + 7 ELSE c0)
    IN  IF s.done THEN s
        ELSE gen_numname_digits([ns |-> ns1, i |-> s.i - 1, seq |-> s.seq \div 16,
                                 done |-> s.i - 1 = 0 \/ s.seq \div 16 = 0])
RECURSIVE gen_numname_body(_, _)
\* the index in dst at which the suffix starts
gen_numname_body(dst, s) ==
    IF s.done \/ ~(s.j < s.i /\ dst[s.j + 1] # Ch.space) THEN s.j
    ELSE gen_numname_body(dst,
             IF dbc_1st(dst[s.j + 1])
             THEN [s EXCEPT !.j = IF s.j = s.i - 1 THEN @ ELSE @ + 2, !.done = s.j = s.i - 1]
             ELSE [s EXCEPT !.j = @ + 1])
RECURSIVE gen_numname_append(_, _)
gen_numname_append(ns, s) ==
    IF s.j >= 8 THEN s.dst
    ELSE gen_numname_append(ns,
             [dst |-> SetAt(s.dst, s.j + 1, IF s.i < 8 THEN ns[s.i] ELSE Ch.space),
              j |-> s.j + 1, i |-> IF s.i < 8 THEN s.i + 1 ELSE s.i])

\* FS.gen_numname: the 8.3 name src with the suffix ~seq.  For seq > 5 the
\* loop that hashes the long name tests lfn[0] and never moves on from it,
\* so it ends only on an empty long name; returns tells whether it ends.
gen_numname(src, lfn, seq) ==
    LET d  == gen_numname_digits([ns |-> Mat([k \in 0..7 |-> 0]), i |-> 7, seq |-> seq,
                                  done |-> FALSE])
        ns == SetAt(d.ns, d.i, Ch.tilde)
        j  == gen_numname_body(src, [j |-> 0, i |-> d.i, done |-> FALSE])
    IN  [returns |-> ~(seq > 5 /\ Get(lfn, 0) # 0),
         fn |-> gen_numname_append(ns, [dst |-> src, j |-> j, i |-> d.i])]

\* one turn of the loop of put_lfn: the stores of unit s.s of the entry
put_lfn_body(lfn, off, s) ==
    LET wc1 == IF s.wc # maxu16 THEN Get(lfn, s.i) ELSE s.wc
    IN  [s   |-> s.s + 1,
         i   |-> IF s.wc # maxu16 THEN s.i + 1 ELSE s.i,
         wc  |-> IF wc1 = 0 THEN maxu16 ELSE wc1,
         ups |-> s.ups \o PutUint16(off + lfnOffsets[s.s + 1], wc1)]
RECURSIVE put_lfn_loop(_, _, _)
put_lfn_loop(lfn, off, s) ==
    IF s.s >= 13 THEN s ELSE put_lfn_loop(lfn, off, put_lfn_body(lfn, off, s))

\* FS.put_lfn: the long-name entry number ord of lfnbuf, written at off
put_lfn(lfn, win, off, ord, sum) ==
    LET l == put_lfn_loop(lfn, off,
                 [s |-> 0, i |-> (ord - 1) * 13, wc |-> 0,
                  ups |-> <<<<off + ldirChksumOff, sum>>, <<off + ldirAttrOff, amLFN>>,
                            <<off + ldirTypeOff, 0>>>>
                          \o PutUint16(off + ldirOrdOff, 0)])
        o == IF l.wc = maxu16 \/ Get(lfn, l.i) = 0 THEN BitOr(ord, mskLLEF) ELSE ord
    IN  Puts(win, l.ups \o <<<<off + ldirOrdOff, o>>>>)

\* one turn of the loop of pick_lfn over the 13 units of the entry
pick_lfn_body(win, off, s) ==
    LET uc == GetU16(win, off + lfnOffsets[s.s + 1])
    IN  CASE s.s >= 13 -> [s EXCEPT !.done = TRUE]
          [] s.s < 13 /\ s.wc # 0 /\ s.i >= lfnBufSize + 1 -> [s EXCEPT !.ok = FALSE, !.done = TRUE]
          [] s.s < 13 /\ s.wc # 0 /\ s.i < lfnBufSize + 1
             -> [s EXCEPT !.lfn = Put(@, s.i, uc), !.s = @ + 1, !.i = @ + 1, !.wc = uc]
          [] s.s < 13 /\ s.wc = 0 /\ uc # maxu16 -> [s EXCEPT !.ok = FALSE, !.done = TRUE]
          [] OTHER -> [s EXCEPT !.s = @ + 1]
RECURSIVE pick_lfn_loop(_, _, _)
pick_lfn_loop(win, off, s) ==
    IF s.done THEN s ELSE pick_lfn_loop(win, off, pick_lfn_body(win, off, s))

\* FS.pick_lfn: the part of the name held by the long-name entry at off is
\* copied to lfnbuf
pick_lfn(lfn, win, off) ==
    LET ord  == Get(win, off + ldirOrdOff)
        last == BitAnd(ord, mskLLEF) # 0
        l    == pick_lfn_loop(win, off,
                    [lfn |-> lfn, s |-> 0, i |-> 13 * ((BitClear(ord, mskLLEF) + 255) % 256),
                     wc |-> 1, ok |-> TRUE, done |-> FALSE])
    IN  IF GetU16(win, off + ldirFstClusLO_Off) # 0 THEN [ok |-> FALSE, lfn |-> lfn]
        ELSE IF ~l.ok THEN [ok |-> FALSE, lfn |-> l.lfn]
        ELSE IF last /\ l.wc # 0
        THEN IF l.i >= lfnBufSize + 1 THEN [ok |-> FALSE, lfn |-> l.lfn]
             ELSE [ok |-> TRUE, lfn |-> Put(l.lfn, l.i, 0)]
        ELSE [ok |-> TRUE, lfn |-> l.lfn]

\* one turn of the loop of cmp_lfn over the 13 units of the entry
cmp_lfn_body(lfn, win, off, s) ==
    LET uc == GetU16(win, off + lfnOffsets[s.s + 1])
    IN  CASE s.s >= 13 -> [s EXCEPT !.done = TRUE]
          [] s.s < 13 /\ s.wc # 0
             /\ (s.i >= lfnBufSize + 1 \/ ff_wtoupper(uc) # ff_wtoupper(Get(lfn, s.i)))
             -> [s EXCEPT !.ok = FALSE, !.done = TRUE]
          [] s.s < 13 /\ s.wc # 0
             /\ ~(s.i >= lfnBufSize + 1 \/ ff_wtoupper(uc) # ff_wtoupper(Get(lfn, s.i)))
             -> [s EXCEPT !.s = @ + 1, !.i = @ + 1, !.wc = uc]
          [] s.s < 13 /\ s.wc = 0 /\ uc # maxu16 -> [s EXCEPT !.ok = FALSE, !.done = TRUE]
          [] OTHER -> [s EXCEPT !.s = @ + 1]
RECURSIVE cmp_lfn_loop(_, _, _, _)
cmp_lfn_loop(lfn, win, off, s) ==
    IF s.done THEN s ELSE cmp_lfn_loop(lfn, win, off, cmp_lfn_body(lfn, win, off, s))

\* FS.cmp_lfn: the long-name entry at off matches its part of lfnbuf
cmp_lfn(lfn, win, off) ==
    LET ord == Get(win, off + ldirOrdOff)
        l   == cmp_lfn_loop(lfn, win, off,
                   [s |-> 0, i |-> ((BitAnd(ord, 63) + 255) % 256) * 13, wc |-> 1,
                    ok |-> TRUE, done |-> FALSE])
    IN  /\ GetU16(win, off + ldirFstClusLO_Off) = 0
        /\ l.ok
        /\ ~(BitAnd(ord, mskLLEF) # 0 /\ l.wc # 0 /\ Get(lfn, l.i) # 0)

\* one turn of the loop of dir.find; s.ord and s.sum follow the long-name
\* entries met
find_body(s) ==
    LET d     == s.d
        w     == invoke("move_window", <<s.m, d.sect>>)
        win   == w.m.fs.win
        c     == Get(win, d.dir + dirNameOff)
        attr  == BitAnd(Get(win, d.dir + dirAttrOff), amMASK)
        d1    == [d EXCEPT !.attr = attr]
        reset == [d1 EXCEPT !.blk_ofs = maxu32]
        start == BitAnd(c, mskLLEF) # 0
        c1    == IF start THEN BitClear(c, mskLLEF) ELSE c
        sum1  == IF start THEN Get(win, d.dir + ldirChksumOff) ELSE s.sum
        ord1  == IF start THEN c1 ELSE s.ord
        d2    == IF start THEN [d1 EXCEPT !.blk_ofs = d.dptr] ELSE d1
        part  == /\ c1 = ord1 /\ sum1 = Get(win, d.dir + ldirChksumOff)
                 /\ invoke("cmp_lfn", <<w.m.fs.lfnbuf, win, d.dir>>)
        sfn   == Bytes(win, d.dir, 11)
        stop(dd, fr) == [m |-> w.m, d |-> dd, ord |-> s.ord, sum |-> s.sum, fr |-> fr,
                         done |-> TRUE]
        step(dd, o, su) ==
            LET n == invoke("next", <<w.m, dd, FALSE>>)
            IN  [m |-> n.m, d |-> n.d, ord |-> o, sum |-> su, fr |-> n.fr,
                 done |-> n.fr # frOK]
    IN  CASE w.fr # frOK -> stop(d, w.fr)
          [] w.fr = frOK /\ c = 0 -> stop(d, frNoFile)
          [] w.fr = frOK /\ c # 0 /\ (c = mskDDEM \/ (BitAnd(attr, amVOL) # 0 /\ attr # amLFN))
             -> step(reset, 255, s.sum)
          [] w.fr = frOK /\ c # 0 /\ c # mskDDEM /\ attr = amLFN
             -> IF BitAnd(d.ns, nsNOLFN) # 0 THEN step(d1, s.ord, s.sum)
                ELSE step(d2, IF part THEN ord1 - 1 ELSE 255, sum1)
          [] OTHER ->
               IF s.ord = 0 /\ s.sum = invoke("sum_sfn", <<sfn>>) THEN stop(d1, frOK)
               ELSE IF BitAnd(d.ns, nsLOSS) = 0 /\ sfn = d.fn THEN stop(d1, frOK)
               ELSE step(reset, 255, s.sum)
RECURSIVE find_loop(_)
find_loop(s) == IF s.done THEN s ELSE find_loop(find_body(s))

\* dir.find: search the directory for the name held by lfnbuf and dp.fn
find(m, d) ==
    LET s == invoke("sdi", <<m, d, 0>>)
        r == find_loop([m |-> s.m, d |-> [s.d EXCEPT !.blk_ofs = maxu32], ord |-> 255,
                        sum |-> 255, fr |-> frOK, done |-> FALSE])
    IN  IF s.fr # frOK THEN s
        ELSE IF m.fs.fstype = fstypeExFAT THEN [m |-> s.m, d |-> s.d, fr |-> frUnsupported]
        ELSE [m |-> r.m, d |-> r.d, fr |-> r.fr]

\* the first byte of the names of the entries "." and ".."
DotName == 46

\* one turn of the loop of dir.read(false); s.ord and s.sum follow the
\* long-name entries met
dir_read_body(s) ==
    LET d     == s.d
        w     == invoke("move_window", <<s.m, d.sect>>)
        win   == w.m.fs.win
        b     == Get(win, d.dir + dirNameOff)
        attr  == BitAnd(Get(win, d.dir + dirAttrOff), amMASK)
        d1    == [d EXCEPT !.attr = attr]
        skip  == b = mskDDEM \/ b = DotName \/ BitClear(attr, amARC) = amVOL
        start == BitAnd(b, mskLLEF) # 0
        b1    == IF start THEN BitClear(b, mskLLEF) ELSE b
        sum1  == IF start THEN Get(win, d.dir + ldirChksumOff) ELSE s.sum
        ord1  == IF start THEN b1 ELSE s.ord
        d2    == IF start THEN [d1 EXCEPT !.blk_ofs = d.dptr] ELSE d1
        seq   == b1 = ord1 /\ sum1 = Get(win, d.dir + ldirChksumOff)
        pk    == invoke("pick_lfn", <<w.m.fs.lfnbuf, win, d.dir>>)
        stop(mm, dd, fr) == [m |-> mm, d |-> dd, ord |-> s.ord, sum |-> s.sum, fr |-> fr,
                             done |-> TRUE]
        step(mm, dd, o, su) ==
            LET n == invoke("next", <<mm, dd, FALSE>>)
            IN  [m |-> n.m, d |-> IF n.fr # frOK THEN [n.d EXCEPT !.sect = 0] ELSE n.d,
                 ord |-> o, sum |-> su, fr |-> n.fr, done |-> n.fr # frOK]
    IN  CASE d.sect = 0 -> stop(s.m, d, frOK)
          [] d.sect # 0 /\ w.fr # frOK -> stop(w.m, [d EXCEPT !.sect = 0], w.fr)
          [] d.sect # 0 /\ w.fr = frOK /\ b = 0 -> stop(w.m, [d EXCEPT !.sect = 0], frNoFile)
          [] d.sect # 0 /\ w.fr = frOK /\ b # 0 /\ skip -> step(w.m, d1, 255, s.sum)
          [] d.sect # 0 /\ w.fr = frOK /\ b # 0 /\ ~skip /\ attr = amLFN
             -> IF seq
                THEN step([w.m EXCEPT !.fs.lfnbuf = pk.lfn], d2,
                          IF pk.ok THEN ord1 - 1 ELSE 255, sum1)
                ELSE step(w.m, d2, 255, sum1)
          [] OTHER ->
               stop(w.m,
                    IF s.ord # 0 \/ s.sum # invoke("sum_sfn", <<Bytes(win, d.dir, 11)>>)
                    THEN [d1 EXCEPT !.blk_ofs = maxu32] ELSE d1,
                    frOK)
RECURSIVE dir_read_loop(_)
dir_read_loop(s) == IF s.done THEN s ELSE dir_read_loop(dir_read_body(s))

\* dir.read(false): move to the next entry that holds a file or directory;
\* ord and sum start at 0
dir_read(m, d) ==
    LET r == dir_read_loop([m |-> m, d |-> d, ord |-> 0, sum |-> 0, fr |-> frOK,
                            done |-> FALSE])
    IN  [m |-> r.m, d |-> r.d, fr |-> r.fr]

\* FileInfo.Name and FileInfo.AlternateName: the bytes before the first 0
FileInfo_Name(info) == info.fname
FileInfo_AlternateName(info) ==
    LET n == CHOOSE k \in 0..sfnBufSize :
                 info.altname[k] = 0 /\ \A j \in 0..(k - 1) : info.altname[j] # 0
    IN  [k \in 1..n |-> info.altname[k - 1]]

\* one turn of the loop of get_fileinfo over the units of lfnbuf; s.fname
\* is the UTF-8 string stored so far
get_fileinfo_lfn_body(lfn, s) ==
    LET wc  == Get(lfn, s.si)
        enc == IF s.hs # 0 THEN EncodeRune(RuneError) ELSE EncodeRune(wc)
    IN  CASE s.si > lfnBufSize \/ wc = 0
             -> [s EXCEPT !.fname = IF s.hs # 0 THEN <<>> ELSE @, !.done = TRUE]
          [] s.si <= lfnBufSize /\ wc # 0 /\ s.hs = 0 /\ isSurrogate(wc)
             -> [s EXCEPT !.si = @ + 1, !.hs = wc]
          [] s.si <= lfnBufSize /\ wc # 0 /\ s.hs = 0 /\ ~isSurrogate(wc)
             /\ RuneLen(wc) > lfnBufSize + 1 - Len(s.fname)
             -> [s EXCEPT !.fname = <<>>, !.done = TRUE]
          [] OTHER -> [s EXCEPT !.si = @ + 1, !.hs = 0, !.fname = @ \o enc]
RECURSIVE get_fileinfo_lfn_loop(_, _)
get_fileinfo_lfn_loop(lfn, s) ==
    IF s.done THEN s ELSE get_fileinfo_lfn_loop(lfn, get_fileinfo_lfn_body(lfn, s))
\* the long name of lfnbuf as UTF-8
get_fileinfo_lfn(lfn) ==
    get_fileinfo_lfn_loop(lfn, [si |-> 0, hs |-> 0, fname |-> <<>>, done |-> FALSE]).fname

\* one turn of the loop of get_fileinfo over the 11 bytes of the 8.3 name
\* of the entry at off, stored in s.alt from index s.di on
get_fileinfo_sfn_body(win, off, s) ==
    LET wc0  == Get(win, off + s.si)
        si1  == s.si + 1
        wc1  == IF wc0 = mskRDDEM THEN mskDDEM ELSE wc0
        dot  == si1 = 9 /\ s.di < sfnBufSize
        alt1 == IF dot THEN SetAt(s.alt, s.di, Ch.dot) ELSE s.alt
        di1  == IF dot THEN s.di + 1 ELSE s.di
        dbc  == /\ dbc_1st(wc1) /\ si1 # 8 /\ si1 # 11
                /\ dbc_2nd(Get(win, off + si1))
        wc2  == IF dbc THEN wc1 * 256 + Get(win, off + si1) ELSE wc1
        si2  == IF dbc THEN si1 + 1 ELSE si1
        wc3  == ff_oem2uni(wc2)
        enc  == EncodeRune(wc3)
    IN  CASE s.si >= 11 -> [s EXCEPT !.done = TRUE]
          [] s.si < 11 /\ wc0 = Ch.space -> [s EXCEPT !.si = si1]
          [] s.si < 11 /\ wc0 # Ch.space /\ (wc3 = 0 \/ RuneLen(wc3) > sfnBufSize - di1)
             -> [s EXCEPT !.di = 0, !.alt = alt1, !.done = TRUE]
          [] OTHER ->
               [s EXCEPT !.si = si2, !.di = di1 + Len(enc),
                         !.alt = Mat([k \in DOMAIN alt1 |->
                                        IF k >= di1 /\ k < di1 + Len(enc)
                                        THEN enc[k - di1 + 1] ELSE alt1[k]])]
RECURSIVE get_fileinfo_sfn_loop(_, _, _)
get_fileinfo_sfn_loop(win, off, s) ==
    IF s.done THEN s ELSE get_fileinfo_sfn_loop(win, off, get_fileinfo_sfn_body(win, off, s))
get_fileinfo_sfn(win, off, alt) ==
    get_fileinfo_sfn_loop(win, off, [si |-> 0, di |-> 0, alt |-> alt, done |-> FALSE])

\* dir.get_fileinfo: the FileInfo info after the entry at dp.dir is stored
\* in it.  Nothing ends altname after the bytes of the 8.3 name.
get_fileinfo(m, d, info) ==
    LET win   == m.fs.win
        lname == IF d.blk_ofs # maxu32 THEN invoke("get_fileinfo_lfn", <<m.fs.lfnbuf>>)
                 ELSE <<>>
        s     == invoke("get_fileinfo_sfn", <<win, d.dir, info.altname>>)
        ntres == Get(win, d.dir + dirNTresOff)
        n     == CHOOSE k \in 0..sfnBufSize :
                     s.alt[k] = 0 /\ \A j \in 0..(k - 1) : s.alt[j] # 0
        lower == [k \in 1..n |->
                    LET c   == s.alt[k - 1]
                        lcf == IF \E j \in 0..(k - 1) : s.alt[j] = Ch.dot
                               THEN nsEXT ELSE nsBODY
                    IN  IF isUpper(c) /\ BitAnd(ntres, lcf) # 0 THEN c + 32 ELSE c]
    IN  IF d.sect = 0 \/ m.fs.fstype = fstypeExFAT THEN [info EXCEPT !.fname = <<>>]
        ELSE [fname   |-> IF lname # <<>> THEN lname
                          ELSE IF s.di = 0 THEN <<Ch.quest>> ELSE Mat(lower),
              altname |-> IF lname = <<>> /\ ntres = 0 THEN SetAt(s.alt, 0, 0)
                          ELSE s.alt,
              fattrib |-> BitAnd(Get(win, d.dir + dirAttrOff), amMASK),
              fsize   |-> GetU32(win, d.dir + dirFileSizeOff)]

validate(obj, fsys) ==
    IF ~obj.fs \/ obj.id # fsys.id THEN frInvalidObject ELSE frOK

\* dir.f_readdir with the FileInfo of the Dir: dp.info is the entry read,
\* with an empty fname at the end of the directory
f_readdir(m, d) ==
    LET r  == invoke("dir_read", <<m, d>>)
        fr == IF r.fr = frNoFile THEN frOK ELSE r.fr
        gi == invoke("get_fileinfo", <<r.m, r.d, r.d.info>>)
        n  == invoke("next", <<r.m, r.d, FALSE>>)
    IN  IF m.fs.fstype = fstypeExFAT THEN [m |-> m, d |-> d, fr |-> frUnsupported]
        ELSE IF validate(d, m.fs) # frOK THEN [m |-> m, d |-> d, fr |-> frInvalidObject]
        ELSE IF fr # frOK THEN [m |-> r.m, d |-> r.d, fr |-> fr]
        ELSE [m |-> n.m, d |-> [n.d EXCEPT !.info = gi],
              fr |-> IF n.fr = frNoFile THEN frOK ELSE n.fr]

\* a turn of the loop of dir.alloc that keeps the count of free entries at an
\* entry in use
alloc_body_norun(nent, s) ==
    LET d     == s.d
        w     == invoke("move_window", <<s.m, d.sect>>)
        dname == Get(w.m.fs.win, d.dir + dirNameOff)
        free  == dname = mskDDEM \/ dname = 0
        nx    == invoke("next", <<w.m, d, TRUE>>)
    IN  CASE w.fr # frOK -> [m |-> w.m, d |-> d, n |-> s.n, fr |-> w.fr, done |-> TRUE]
          [] w.fr = frOK /\ free /\ s.n + 1 = nent
             -> [m |-> w.m, d |-> d, n |-> s.n + 1, fr |-> frOK, done |-> TRUE]
          [] OTHER -> [m |-> nx.m, d |-> nx.d, n |-> IF free THEN s.n + 1 ELSE s.n,
                       fr |-> nx.fr, done |-> nx.fr # frOK]
\* one turn of the loop of dir.alloc; s.n counts the free entries met in a
\* row
alloc_body(nent, s) ==
    LET d     == s.d
        w     == invoke("move_window", <<s.m, d.sect>>)
        dname == Get(w.m.fs.win, d.dir + dirNameOff)
        free  == dname = mskDDEM \/ dname = 0
        nx    == invoke("next", <<w.m, d, TRUE>>)
    IN  CASE w.fr # frOK -> [m |-> w.m, d |-> d, n |-> s.n, fr |-> w.fr, done |-> TRUE]
          [] w.fr = frOK /\ free /\ s.n + 1 = nent
             -> [m |-> w.m, d |-> d, n |-> s.n + 1, fr |-> frOK, done |-> TRUE]
          [] OTHER -> [m |-> nx.m, d |-> nx.d, n |-> IF free THEN s.n + 1 ELSE 0,
                       fr |-> nx.fr, done |-> nx.fr # frOK]
RECURSIVE alloc_loop(_, _)
alloc_loop(nent, s) == IF s.done THEN s ELSE alloc_loop(nent, alloc_body(nent, s))

\* dir.alloc: reserve nent free directory entries in a row
alloc(m, d, nent) ==
    LET s == invoke("sdi", <<m, d, 0>>)
        r == invoke("alloc_loop", <<nent, [m |-> s.m, d |-> s.d, n |-> 0, fr |-> frOK,
                                           done |-> FALSE]>>)
    IN  IF s.fr # frOK THEN [s EXCEPT !.fr = IF @ = frNoFile THEN frDenied ELSE @]
        ELSE [m |-> r.m, d |-> r.d, fr |-> IF r.fr = frNoFile THEN frDenied ELSE r.fr]

dirbuf_clr(win, off) ==
    Mat([k \in DOMAIN win \ (off..(off + sizeDirEntry - 1)) |-> win[k]])

\* the result of a call that does not return
noReturn == 200
\* the bound of the loop of dir.register that numbers the 8.3 name
maxCollisions == 100

\* one turn of the loop of dir.register that looks for a numbered 8.3 name
\* not in use; s.n is the number tried
register_number_body(sn, s) ==
    LET g == invoke("gen_numname", <<sn, s.m.fs.lfnbuf, s.n>>)
        f == invoke("find", <<s.m, [s.d EXCEPT !.fn = g.fn]>>)
    IN  CASE s.n >= maxCollisions -> [s EXCEPT !.fr = frDenied, !.done = TRUE]
          [] s.n < maxCollisions /\ ~g.returns -> [s EXCEPT !.fr = noReturn, !.done = TRUE]
          [] OTHER -> [m |-> f.m, d |-> f.d, n |-> s.n + 1, fr |-> f.fr,
                       done |-> f.fr # frOK]
RECURSIVE register_number_loop(_, _)
register_number_loop(sn, s) ==
    IF s.done THEN s ELSE register_number_loop(sn, register_number_body(sn, s))
register_number(m, d, sn, n) ==
    LET r == register_number_loop(sn, [m |-> m, d |-> d, n |-> n, fr |-> frOK,
                                       done |-> FALSE])
    IN  [m |-> r.m, d |-> r.d, fr |-> r.fr]

\* one turn of the loop of dir.register that stores the long-name entries
register_lfn_body(sum, s) ==
    LET d  == s.d
        w  == invoke("move_window", <<s.m, d.sect>>)
        m1 == [w.m EXCEPT !.fs.win = invoke("put_lfn",
                                            <<s.m.fs.lfnbuf, @, d.dir, s.nent, sum>>),
                          !.fs.wflag = 1]
        n  == invoke("next", <<m1, d, FALSE>>)
    IN  IF w.fr # frOK
        THEN [m |-> w.m, d |-> d, nent |-> s.nent, fr |-> w.fr, done |-> TRUE]
        ELSE [m |-> n.m, d |-> n.d, nent |-> s.nent - 1, fr |-> n.fr,
              done |-> n.fr # frOK \/ s.nent - 1 <= 0]
RECURSIVE register_lfn_loop(_, _)
register_lfn_loop(sum, s) ==
    IF s.done THEN s ELSE register_lfn_loop(sum, register_lfn_body(sum, s))
register_lfn(m, d, nent, sum) ==
    LET r == register_lfn_loop(sum, [m |-> m, d |-> d, nent |-> nent, fr |-> frOK,
                                     done |-> FALSE])
    IN  [m |-> r.m, d |-> r.d, fr |-> r.fr]

\* dir.register: store the entries of the name held by lfnbuf and dp.fn
register(m, d) ==
    LET ln   == lfnlen(m.fs.lfnbuf)
        loss == BitAnd(d.ns, nsLOSS) # 0
        nn   == invoke("register_number", <<m, [d EXCEPT !.ns = nsNOLFN], d.fn, 1>>)
        m1   == IF loss THEN nn.m ELSE m
        d1   == IF loss THEN [nn.d EXCEPT !.ns = d.ns] ELSE d
        nent == IF BitAnd(d.ns, nsLFN) # 0 THEN (ln + 12) \div 13 + 1 ELSE 1
        a    == invoke("alloc", <<m1, d1, nent>>)
        s    == invoke("sdi", <<a.m, a.d, a.d.dptr - (nent - 1) * sizeDirEntry>>)
        l    == IF s.fr # frOK THEN s
                ELSE invoke("register_lfn",
                            <<s.m, s.d, nent - 1, invoke("sum_sfn", <<d1.fn>>)>>)
        e    == IF a.fr = frOK /\ nent - 1 # 0 THEN l ELSE a
        w    == invoke("move_window", <<e.m, e.d.sect>>)
    IN  IF BitAnd(d.ns, nsDOT + nsNONAME) # 0 THEN [m |-> m, d |-> d, fr |-> frInvalidName]
        ELSE IF m.fs.fstype = fstypeExFAT THEN [m |-> m, d |-> d, fr |-> frUnsupported]
        ELSE IF loss /\ nn.fr # frNoFile THEN nn
        ELSE IF e.fr # frOK THEN e
        ELSE IF w.fr # frOK THEN [m |-> w.m, d |-> e.d, fr |-> w.fr]
        ELSE [m |-> [w.m EXCEPT
                       !.fs.win = Put(Copy(dirbuf_clr(@, e.d.dir), e.d.dir + dirNameOff,
                                           d1.fn, 0, 11),
                                      e.d.dir + dirNTresOff,
                                      BitAnd(d1.ns, nsBODY + nsEXT)),
                       !.fs.wflag = 1],
              d |-> e.d, fr |-> frOK]

RECURSIVE follow_path_loop_any(_, _, _)
\* follow_path's loop without the test that an intermediate entry is a
\* directory
follow_path_loop_any(m, d, path) ==
    LET cn == invoke("create_name", <<m.fs.lfnbuf, path>>)
        m1 == [m EXCEPT !.fs.lfnbuf = cn.lfn]
        d1 == [d EXCEPT !.fn = cn.fn, !.ns = cn.ns]
        f  == invoke("find", <<m1, d1>>)
    IN  IF cn.fr # frOK THEN [m |-> m1, d |-> d, fr |-> cn.fr]
        ELSE IF f.fr # frOK
        THEN [f EXCEPT !.fr = IF @ = frNoFile /\ ~Has(d1.ns, nsLAST) THEN frNoPath ELSE @]
        ELSE IF Has(d1.ns, nsLAST) THEN f
        ELSE follow_path_loop_any(f.m,
                 [f.d EXCEPT !.sclust = ld_clust(f.m.fs, f.m.fs.win,
                                                 modSS(f.m.fs, f.d.dptr))],
                 Tail(path))

RECURSIVE follow_path_loop(_, _, _)
\* the loop of follow_path: create_name takes the first segment of the path
\* and sets nsLAST when no segment follows
follow_path_loop(m, d, path) ==
    LET cn == invoke("create_name", <<m.fs.lfnbuf, path>>)
        m1 == [m EXCEPT !.fs.lfnbuf = cn.lfn]
        d1 == [d EXCEPT !.fn = cn.fn, !.ns = cn.ns]
        f  == invoke("find", <<m1, d1>>)
    IN  IF cn.fr # frOK THEN [m |-> m1, d |-> d, fr |-> cn.fr]
        ELSE IF f.fr # frOK
        THEN [f EXCEPT !.fr = IF @ = frNoFile /\ ~Has(d1.ns, nsLAST) THEN frNoPath ELSE @]
        ELSE IF Has(d1.ns, nsLAST) THEN f
        ELSE IF ~Has(f.d.attr, amDIR) THEN [f EXCEPT !.fr = frNoPath]
        ELSE follow_path_loop(f.m,
                 [f.d EXCEPT !.sclust = ld_clust(f.m.fs, f.m.fs.win,
                                                 modSS(f.m.fs, f.d.dptr))],
                 Tail(path))

follow_path(m, d, path) ==
    LET d0 == [d EXCEPT !.sclust = 0]
    IN  IF m.fs.fstype = fstypeExFAT THEN [m |-> m, d |-> d0, fr |-> frUnsupported]
        ELSE IF path = <<>> THEN invoke("sdi", <<m, [d0 EXCEPT !.ns = nsNONAME], 0>>)
        ELSE invoke("follow_path_loop", <<m, d0, path>>)

f_opendir(m, d, path) ==
    LET d0 == [d EXCEPT !.fs = TRUE]
        f  == invoke("follow_path", <<m, d0, path>>)
        isdir == Has(f.d.attr, amDIR)
        d1 == IF ~Has(f.d.ns, nsNONAME) /\ isdir
              THEN [f.d EXCEPT !.sclust = ld_clust(f.m.fs, f.m.fs.win, f.d.dir)]
              ELSE f.d
        d2 == [d1 EXCEPT !.id = f.m.fs.id]
        s  == invoke("sdi", <<f.m, d2, 0>>)
    IN  IF m.fs.fstype = fstypeExFAT THEN [m |-> m, d |-> d, fr |-> frUnsupported]
        ELSE IF f.fr # frOK
        THEN [m |-> f.m, d |-> [f.d EXCEPT !.fs = FALSE],
              fr |-> IF f.fr = frNoFile THEN frNoPath ELSE f.fr]
        ELSE IF ~Has(f.d.ns, nsNONAME) /\ ~isdir
        THEN [m |-> f.m, d |-> [f.d EXCEPT !.fs = FALSE], fr |-> frNoPath]
        ELSE IF s.fr # frOK
        THEN [m |-> s.m, d |-> [s.d EXCEPT !.fs = FALSE],
              fr |-> IF s.fr = frNoFile THEN frNoPath ELSE s.fr]
        ELSE s

\* ------------------------------------------------------------ file objects
\* A File fp is [fs, id, sclust, objsize, flag, err, fptr, clust, sect,
\* dir_sect, dir_ptr, buf]: fs is "obj.fs is not nil", dir_ptr is the offset
\* in fs.win that the slice fp.dir_ptr aliases, buf is the sector cache.
ZeroFile ==
    [fs |-> FALSE, id |-> 0, sclust |-> 0, objsize |-> 0, flag |-> 0, err |-> 0,
     fptr |-> 0, clust |-> 0, sect |-> 0, dir_sect |-> 0, dir_ptr |-> 0,
     buf |-> EmptySect]

abort(fp, fr) == [fp EXCEPT !.err = fr]

RECURSIVE seekend_walk(_, _, _, _)
\* the loop of f_open that follows the chain to the cluster of the last byte
seekend_walk(m, clst, ofs, bcs) ==
    IF ~(ofs > bcs) THEN [m |-> m, clst |-> clst, ofs |-> ofs, fr |-> frOK]
    ELSE
      LET c  == invoke("clusterstat", <<m, clst>>)
          fr == IF c.val <= 1 THEN frIntErr
                ELSE IF c.val = maxu32 THEN frDiskErr ELSE frOK
      IN  IF fr # frOK THEN [m |-> c.m, clst |-> c.val, ofs |-> ofs - bcs, fr |-> fr]
          ELSE seekend_walk(c.m, c.val, ofs - bcs, bcs)

\* the part of f_open that truncates the entry the window points at
f_open_truncate(m, dj) ==
    LET w0 == m.fs.win
        cl == ld_clust(m.fs, PutU32(PutU32(w0, dj.dir + dirCrtTimeOff, 0),
                                    dj.dir + dirModTimeOff, 0), dj.dir)
        w1 == PutU32(Put(PutU32(PutU32(w0, dj.dir + dirCrtTimeOff, 0),
                                dj.dir + dirModTimeOff, 0),
                         dj.dir + dirAttrOff, amARC),
                     dj.dir + dirFileSizeOff, 0)
        m1 == [m EXCEPT !.fs.win = w1, !.fs.wflag = 1]
        sc == m1.fs.winsect
        r  == invoke("remove_chain", <<m1, cl, 0>>)
        w  == invoke("move_window", <<r.m, sc>>)
    IN  IF cl = 0 THEN [m |-> m1, fr |-> frOK]
        ELSE IF r.fr # frOK THEN r
        ELSE [m |-> [w.m EXCEPT !.fs.last_clst = cl - 1], fr |-> w.fr]

\* the part of f_open after the entry is found or created: fill the handle
f_open_attach(m, fp, dj, mode0) ==
    LET mode == IF BitAnd(mode0, faCreateAlways) # 0 THEN BitOr(mode0, faMODIFIED) ELSE mode0
        size == GetU32(m.fs.win, dj.dir + dirFileSizeOff)
        fp1  == [fp EXCEPT !.dir_sect = m.fs.winsect, !.dir_ptr = dj.dir,
                           !.sclust = ld_clust(m.fs, m.fs.win, dj.dir),
                           !.objsize = size, !.fs = TRUE, !.id = m.fs.id,
                           !.flag = mode, !.err = 0, !.sect = 0, !.fptr = 0,
                           !.buf = EmptySect]
        seek == BitAnd(mode, faSEEKEND) # 0 /\ size > 0
        bcs  == (m.fs.csize * m.fs.ssize) % 65536
        wk   == invoke("seekend_walk", <<m, fp1.sclust, size, bcs>>)
        sc   == clst2sect(wk.m.fs, wk.clst)
        sect == sc + wk.ofs \div m.fs.ssize
        rd   == invoke("disk_read", <<wk.m, SectorSize, sect, 1>>)
        fp2  == [fp1 EXCEPT !.fptr = size, !.clust = wk.clst]
    IN  IF ~seek THEN [m |-> m, fp |-> fp1, fr |-> frOK]
        ELSE IF wk.fr # frOK THEN [m |-> wk.m, fp |-> [fp2 EXCEPT !.fs = FALSE], fr |-> wk.fr]
        ELSE IF modSS(m.fs, wk.ofs) = 0 THEN [m |-> wk.m, fp |-> fp2, fr |-> frOK]
        ELSE IF sc = 0 THEN [m |-> wk.m, fp |-> [fp2 EXCEPT !.fs = FALSE], fr |-> frIntErr]
        ELSE IF rd.dr # drOK
        THEN [m |-> rd.m, fp |-> [fp2 EXCEPT !.fs = FALSE, !.sect = sect], fr |-> frDiskErr]
        ELSE [m |-> rd.m, fp |-> [fp2 EXCEPT !.sect = sect, !.buf = rd.secs[1]], fr |-> frOK]

\* the open-existing branch with its checks removed: any entry opens
f_open_existing_any(attr, mode) == frOK

\* f_open, the branch that opens an existing file: the checks on the entry
f_open_existing(attr, mode) ==
    IF Has(attr, amDIR) THEN frNoFile
    ELSE IF Has(mode, faWrite) /\ Has(attr, amRDO) THEN frDenied
    ELSE frOK

\* f_open, the branch that creates a file: the checks on an entry that exists
f_open_create(attr, mode) ==
    IF BitAnd(attr, amRDO + amDIR) # 0 THEN frDenied
    ELSE IF BitAnd(mode, faCreateNew) # 0 THEN frExist
    ELSE frOK

f_open(m, fp, name, mode) ==
    LET fl  == invoke("follow_path", <<m, [ZeroDir EXCEPT !.fs = TRUE], name>>)
        res0 == IF fl.fr = frOK /\ Has(fl.d.ns, nsNONAME) THEN frInvalidName ELSE fl.fr
        create == BitAnd(mode, faCreateAlways + faOpenAlways + faCreateNew) # 0
        \* create branch
        rg  == IF res0 = frNoFile THEN invoke("register", <<fl.m, fl.d>>)
               ELSE [m |-> fl.m, d |-> fl.d, fr |-> res0]
        cres == IF res0 # frOK THEN rg.fr
                ELSE f_open_create(fl.d.attr, mode)
        cmode == IF res0 # frOK THEN BitOr(mode, faCreateAlways) ELSE mode
        tr  == IF cres = frOK /\ BitAnd(cmode, faCreateAlways) # 0
               THEN invoke("f_open_truncate", <<rg.m, rg.d>>)
               ELSE [m |-> rg.m, fr |-> cres]
        \* open-existing branch
        eres == IF res0 # frOK THEN res0 ELSE f_open_existing(fl.d.attr, mode)
        m1   == IF create THEN tr.m ELSE fl.m
        dj   == IF create THEN rg.d ELSE fl.d
        res  == IF create THEN tr.fr ELSE eres
        md   == IF create THEN cmode ELSE mode
    IN  IF m.fs.fstype = fstypeExFAT THEN [m |-> m, fp |-> fp, fr |-> frUnsupported]
        ELSE IF m.fs.perm = 0 THEN [m |-> m, fp |-> fp, fr |-> frDenied]
        ELSE IF res # frOK THEN [m |-> m1, fp |-> [fp EXCEPT !.fs = FALSE], fr |-> res]
        ELSE invoke("f_open_attach", <<m1, fp, dj, md>>)

f_sync(m, fp) ==
    LET dw  == invoke("disk_write", <<m, SectorSize, <<fp.buf>>, fp.sect, 1>>)
        dirty == Has(fp.flag, faDIRTY)
        m1  == IF dirty THEN dw.m ELSE m
        fp1 == IF dirty THEN [fp EXCEPT !.flag = BitClear(@, faDIRTY)] ELSE fp
        w   == invoke("move_window", <<m1, fp.dir_sect>>)
        dir == fp.dir_ptr
        win == PutU32(PutU32(PutU32(st_clust(w.m.fs, Put(w.m.fs.win, dir + dirAttrOff, amARC),
                                             dir, fp.sclust),
                                    dir + dirFileSizeOff, fp.objsize),
                             dir + dirModTimeOff, 0),
                      dir + dirLstAccDateOff, 0)
        s   == invoke("fs_sync", <<[w.m EXCEPT !.fs.win = win, !.fs.wflag = 1]>>)
    IN  IF ~Has(fp.flag, faMODIFIED) THEN [m |-> m, fp |-> fp, fr |-> frOK]
        ELSE IF m.fs.fstype = fstypeExFAT THEN [m |-> m, fp |-> fp, fr |-> frUnsupported]
        ELSE IF dirty /\ dw.dr # drOK THEN [m |-> dw.m, fp |-> fp, fr |-> frDiskErr]
        ELSE IF w.fr # frOK THEN [m |-> w.m, fp |-> fp1, fr |-> w.fr]
        ELSE [m |-> s.m, fp |-> [fp1 EXCEPT !.flag = BitClear(@, faMODIFIED)], fr |-> s.fr]

\* f_close that syncs the file and leaves the handle attached
f_close_attached(m, fp) ==
    invoke("f_sync", <<m, fp>>)

f_close(m, fp) ==
    LET s == invoke("f_sync", <<m, fp>>)
    IN  IF s.fr # frOK THEN s
        ELSE IF validate(s.fp, s.m.fs) # frOK THEN [s EXCEPT !.fr = frInvalidObject]
        ELSE [s EXCEPT !.fp.fs = FALSE]

\* the bytes of a sequence of sectors
RECURSIVE SectsBytes(_, _)
SectsBytes(secs, i) ==
    IF i > Len(secs) THEN <<>>
    ELSE Bytes(secs[i], 0, SectorSize) \o SectsBytes(secs, i + 1)
\* sequence q with the bytes of sector sec written from position off+1 on
Patch(q, off, sec) ==
    [i \in 1..Len(q) |-> IF i > off /\ i <= off + SectorSize THEN Get(sec, i - off - 1)
                         ELSE q[i]]

RECURSIVE f_read_loop(_, _, _, _, _, _)
\* One pass of the loop of f_read, entered after the transfer accounting.
\* buflen is len(buff), btr the bytes still to read, br the bytes read and
\* out the bytes stored in buff[0:br].
f_read_loop(m, fp, buflen, btr, br, out) ==
    LET ss    == m.fs.ssize
        cs    == m.fs.csize
        onsec == fp.fptr % ss = 0
        csect == (fp.fptr \div ss) % cs
        c     == IF fp.fptr = 0 THEN [m |-> m, val |-> fp.sclust]
                 ELSE invoke("clusterstat", <<m, fp.clust>>)
        m1    == IF csect = 0 THEN c.m ELSE m
        fp1   == IF csect = 0 THEN [fp EXCEPT !.clust = c.val] ELSE fp
        sect0 == clst2sect(m1.fs, fp1.clust)
        sect  == sect0 + csect
        cc0   == btr \div ss
        cc    == IF csect + cc0 > cs THEN cs - csect ELSE cc0
        \* direct transfer of cc sectors into buff[br:]
        rd    == invoke("disk_read", <<m1, buflen - br, sect, cc>>)
        hit   == Has(fp1.flag, faDIRTY) /\ Sub32(fp1.sect, sect) < cc
        data  == IF hit THEN Patch(SectsBytes(rd.secs, 1), (fp1.sect - sect) * ss, fp1.buf)
                 ELSE SectsBytes(rd.secs, 1)
        \* transfer through the sector cache
        dirty == Has(fp1.flag, faDIRTY)
        dw    == invoke("disk_write", <<m1, SectorSize, <<fp1.buf>>, fp1.sect, 1>>)
        m2    == IF dirty THEN dw.m ELSE m1
        fp2   == IF dirty THEN [fp1 EXCEPT !.flag = BitClear(@, faDIRTY)] ELSE fp1
        rb    == invoke("disk_read", <<m2, SectorSize, sect, 1>>)
        m3    == IF onsec THEN rb.m ELSE m
        fp3   == IF onsec THEN [fp2 EXCEPT !.buf = rb.secs[1], !.sect = sect] ELSE fp
        modfptr == fp.fptr % ss
        rcnt  == Min(ss - modfptr, btr)
        Abort(mm, ff, fr) == [m |-> mm, fp |-> abort(ff, fr), br |-> br, fr |-> fr, out |-> out]
    IN  IF btr <= 0 THEN [m |-> m, fp |-> fp, br |-> br, fr |-> frOK, out |-> out]
        ELSE IF onsec /\ csect = 0 /\ c.val < 2 THEN Abort(c.m, fp, frIntErr)
        ELSE IF onsec /\ csect = 0 /\ c.val = maxu32 THEN Abort(c.m, fp, frDiskErr)
        ELSE IF onsec /\ sect0 = 0 THEN Abort(m1, fp1, frIntErr)
        ELSE IF onsec /\ cc0 > 0
        THEN IF rd.dr # drOK THEN Abort(rd.m, fp1, frDiskErr)
             ELSE f_read_loop(rd.m, [fp1 EXCEPT !.fptr = @ + ss * cc], buflen,
                              btr - ss * cc, br + ss * cc, out \o data)
        ELSE IF onsec /\ dirty /\ dw.dr # drOK THEN Abort(dw.m, fp1, frDiskErr)
        ELSE IF onsec /\ rb.dr # drOK THEN Abort(rb.m, fp2, frDiskErr)
        ELSE f_read_loop(m3, [fp3 EXCEPT !.fptr = @ + rcnt], buflen,
                         btr - rcnt, br + rcnt, out \o Bytes(fp3.buf, modfptr, rcnt))

f_read(m, fp, buflen) ==
    IF ~Has(fp.flag, faRead) \/ ~Has(m.fs.perm, ModeRead)
    THEN [m |-> m, fp |-> fp, br |-> 0, fr |-> frDenied, out |-> <<>>]
    ELSE invoke("f_read_loop", <<m, fp, buflen, Min(buflen, fp.objsize - fp.fptr), 0, <<>>>>)

RECURSIVE f_write_loop(_, _, _, _, _, _)
\* One pass of the loop of f_write.  buf is the caller's buffer, bw the
\* bytes accounted so far, btw the bytes left when the loop condition is
\* tested and wcnt the bytes transferred by the previous pass.
f_write_loop(m, fp, buf, bw, btw, wcnt) ==
    LET ss    == m.fs.ssize
        cs    == m.fs.csize
        btw1  == btw - wcnt
        bw1   == bw + wcnt
        fptr  == fp.fptr + wcnt
        fp0   == [fp EXCEPT !.fptr = fptr, !.objsize = Max(@, fptr)]
        onsec == fptr % ss = 0
        csect == (fptr \div ss) % cs
        c     == IF fptr = 0
                 THEN (IF fp0.sclust = 0 THEN invoke("create_chain", <<m, 0>>)
                       ELSE [m |-> m, val |-> fp0.sclust])
                 ELSE invoke("create_chain", <<m, fp0.clust>>)
        newcl == onsec /\ csect = 0
        m1    == IF newcl THEN c.m ELSE m
        fp1   == IF newcl
                 THEN [fp0 EXCEPT !.clust = c.val,
                                  !.sclust = IF @ = 0 THEN c.val ELSE @]
                 ELSE fp0
        dirty == Has(fp1.flag, faDIRTY)
        dw    == invoke("disk_write", <<m1, SectorSize, <<fp1.buf>>, fp1.sect, 1>>)
        m2    == IF dirty THEN dw.m ELSE m1
        fp2   == IF dirty THEN [fp1 EXCEPT !.flag = BitClear(@, faDIRTY)] ELSE fp1
        sect0 == clst2sect(m2.fs, fp2.clust)
        sect  == sect0 + csect
        cc0   == btw1 \div ss
        cc    == IF csect + cc0 > cs THEN cs - csect ELSE cc0
        \* direct transfer of cc sectors from wbuff
        bd    == invoke("disk_write", <<m2, cc * ss, [i \in 1..cc |-> SectOf(buf, bw1 + (i - 1) * ss)],
                            sect, cc>>)
        off   == Sub32(fp2.sect, sect)
        fp3   == IF off < cc
                 THEN [fp2 EXCEPT !.buf = SectOf(buf, bw1 + off * ss),
                                  !.flag = BitClear(@, faDIRTY)]
                 ELSE fp2
        \* transfer through the sector cache
        fill  == fp2.sect # sect /\ fptr < fp2.objsize
        rb    == invoke("disk_read", <<m2, SectorSize, sect, 1>>)
        m4    == IF ~onsec THEN m ELSE IF fill THEN rb.m ELSE m2
        fp4   == IF ~onsec THEN fp0
                 ELSE IF fill THEN [fp2 EXCEPT !.buf = rb.secs[1], !.sect = sect]
                 ELSE [fp2 EXCEPT !.sect = sect]
        modss == fptr % ss
        n     == Min(ss - modss, btw1)
        fp5   == [fp4 EXCEPT !.buf = Copy(@, modss, buf, bw1, n),
                             !.flag = BitOr(@, faDIRTY)]
        Done(mm, ff)  == [m |-> mm, fp |-> [ff EXCEPT !.flag = BitOr(@, faMODIFIED)],
                          bw |-> bw1, fr |-> frOK]
        Abort(mm, ff, fr) == [m |-> mm, fp |-> abort(ff, fr), bw |-> bw1, fr |-> fr]
    IN  IF btw <= 0 THEN [m |-> m, fp |-> [fp EXCEPT !.flag = BitOr(@, faMODIFIED)],
                          bw |-> bw, fr |-> frOK]
        ELSE IF newcl /\ c.val = 0 THEN Done(c.m, fp0)
        ELSE IF newcl /\ c.val = 1 THEN Abort(c.m, fp0, frIntErr)
        ELSE IF newcl /\ c.val = maxu32 THEN Abort(c.m, fp0, frDiskErr)
        ELSE IF onsec /\ dirty /\ dw.dr # drOK THEN Abort(dw.m, fp1, frDiskErr)
        ELSE IF onsec /\ sect0 = 0 THEN Abort(m2, fp2, frIntErr)
        ELSE IF onsec /\ cc0 > 0
        THEN IF bd.dr # drOK THEN Abort(bd.m, fp2, frDiskErr)
             ELSE f_write_loop(bd.m, fp3, buf, bw1, btw1, cc * ss)
        ELSE IF onsec /\ fill /\ rb.dr # drOK THEN Abort(rb.m, fp2, frDiskErr)
        ELSE f_write_loop(m4, fp5, buf, bw1, btw1, n)

\* f_write without the test of the handle's write access
f_write_any(m, fp, buf) ==
    LET fr == validate(fp, m.fs)
    IN  IF fr # frOK THEN [m |-> m, fp |-> fp, bw |-> 0, fr |-> fr]
        ELSE IF fp.err # frOK THEN [m |-> m, fp |-> fp, bw |-> 0, fr |-> fp.err]
        ELSE IF m.fs.fstype = fstypeExFAT
        THEN [m |-> m, fp |-> fp, bw |-> 0, fr |-> frUnsupported]
        ELSE IF ~Has(m.fs.perm, ModeWrite)
        THEN [m |-> m, fp |-> fp, bw |-> 0, fr |-> frWriteProtected]
        ELSE invoke("f_write_loop", <<m, fp, buf, 0, Len(buf), 0>>)

f_write(m, fp, buf) ==
    LET fr == validate(fp, m.fs)
    IN  IF fr # frOK THEN [m |-> m, fp |-> fp, bw |-> 0, fr |-> fr]
        ELSE IF fp.err # frOK THEN [m |-> m, fp |-> fp, bw |-> 0, fr |-> fp.err]
        ELSE IF ~Has(fp.flag, faWrite)
        THEN [m |-> m, fp |-> fp, bw |-> 0, fr |-> frWriteProtected]
        ELSE IF m.fs.fstype = fstypeExFAT
        THEN [m |-> m, fp |-> fp, bw |-> 0, fr |-> frUnsupported]
        ELSE IF ~Has(m.fs.perm, ModeWrite)
        THEN [m |-> m, fp |-> fp, bw |-> 0, fr |-> frWriteProtected]
        ELSE invoke("f_write_loop", <<m, fp, buf, 0, Len(buf), 0>>)

\* ------------------------------------------------------------------ mount
\* tokens standing for the strings compared by check_fs
Str == [mkfs |-> 1, exfat |-> 2, fat32 |-> 3]

check_fs(m, sect) ==
    LET w   == invoke("move_window", <<invalidate_window(m), sect>>)
        win == w.m.fs.win
        bsValid == GetU16(win, bs55AA) = 43605
        b   == Get(win, bsJmpBoot)
        st  == IF w.fr # frOK THEN bootsectorstatusDiskError
               ELSE IF bsValid /\ b = 235 /\ Get(win, 1) = 118 /\ Get(win, 2) = 144
                       /\ Get(win, bsOEMName) = Str.exfat
               THEN bootsectorstatusExFAT
               ELSE IF b \notin {235, 233, 232}
               THEN 3 - (IF bsValid THEN 1 ELSE 0)
               ELSE IF bsValid /\ Get(win, bsFilSysType32) = Str.fat32
               THEN bootsectorstatusFAT
               ELSE bootsectorstatusNotFATInvalidBS
    IN  [m |-> w.m, st |-> st]

RECURSIVE find_volume_scan(_, _, _)
\* the loop of find_volume over the four MBR partition entries (part = 0)
find_volume_scan(m, mbr_pt, i) ==
    LET c  == IF mbr_pt[i] > 0 THEN invoke("check_fs", <<m, mbr_pt[i]>>)
              ELSE [m |-> m, st |-> bootsectorstatusNotFATInvalidBS]
    IN  IF c.st >= 2 /\ i + 1 < 4 THEN find_volume_scan(c.m, mbr_pt, i + 1) ELSE c

\* find_volume(0)
find_volume(m) ==
    LET c == invoke("check_fs", <<m, 0>>)
        mbr_pt == [i \in 0..3 |-> GetU32(c.m.fs.win, offsetMBRTable + 16 * i + 8)]
    IN  IF c.st # 2 THEN c
        ELSE IF Get(c.m.fs.win, offsetMBRTable + 4) = 238
        THEN [m |-> c.m, st |-> bootsectorstatusNotFATInvalidBS]
        ELSE invoke("find_volume_scan", <<c.m, mbr_pt, 0>>)

init_fat(m) ==
    LET win == m.fs.win
        baseSector == m.fs.winsect
        ss  == m.fs.ssize
        fsz == IF GetU16(win, bpbFATSz16) = 0 THEN GetU32(win, bpbFATSz32)
               ELSE GetU16(win, bpbFATSz16)
        nFATs == Get(win, bpbNumFATs)
        csize == Get(win, bpbSecPerClus)
        nrootdir == GetU16(win, bpbRootEntCnt)
        sectorsTotal == IF GetU16(win, bpbTotSec16) = 0 THEN GetU32(win, bpbTotSec32)
                        ELSE GetU16(win, bpbTotSec16)
        sectorsReserved == GetU16(win, bpbRsvdSecCnt)
        sectorsNonApplication ==
            MulAdd32(sectorsReserved, fsz, nFATs, nrootdir \div (ss \div sizeDirEntry))
        clustersTotal == (sectorsTotal - sectorsNonApplication) \div csize
        fmt == IF clustersTotal > clustMaxFAT16 THEN fstypeFAT32
               ELSE IF clustersTotal > clustMaxFAT12 THEN fstypeFAT16
               ELSE fstypeFAT12
        f1  == [m.fs EXCEPT !.fsize = fsz, !.nFATs = nFATs]
        f2  == [f1 EXCEPT !.csize = csize]
        f3  == [f2 EXCEPT !.nrootdir = nrootdir]
        f4  == [f3 EXCEPT !.n_fatent = clustersTotal + 2, !.volbase = baseSector,
                          !.fatbase = baseSector + sectorsReserved,
                          !.database = Add32(baseSector, sectorsNonApplication)]
        f5  == [f4 EXCEPT !.dirbase = IF fmt = fstypeFAT32 THEN GetU32(win, bpbRootClus32)
                                      ELSE MulAdd32(f4.fatbase, fsz, nFATs, 0),
                          !.last_clst = maxu32, !.free_clst = maxu32, !.fsi_flag = 128]
        Fail(f, fr) == [m |-> [m EXCEPT !.fs = f], fr |-> fr]
        hasfsi == fmt = fstypeFAT32 /\ GetU16(win, bpbFSInfo32) = 1
        w   == invoke("move_window", <<[m EXCEPT !.fs = f5], baseSector + 1>>)
        iw  == w.m.fs.win
        ok  == GetU16(iw, bs55AA) = 43605 /\ GetU32(iw, fsiLeadSig) = 1096897106
               /\ GetU32(iw, fsiStrucSig) = 1631679090
        m6  == IF ~hasfsi THEN [m EXCEPT !.fs = f5]
               ELSE IF w.fr # frOK THEN w.m
               ELSE IF ok THEN [w.m EXCEPT !.fs.fsi_flag = 0,
                                           !.fs.free_clst = GetU32(iw, fsiFree_Count),
                                           !.fs.last_clst = GetU32(iw, fsiNxt_Free)]
               ELSE [w.m EXCEPT !.fs.fsi_flag = 0]
    IN  IF GetU16(win, bpbBytsPerSec) # ss THEN Fail(m.fs, frInvalidParameter)
        ELSE IF nFATs # 1 /\ nFATs # 2 THEN Fail(f1, frNoFilesystem)
        ELSE IF csize = 0 \/ BitAnd(csize, csize - 1) # 0 THEN Fail(f2, frNoFilesystem)
        ELSE IF nrootdir % (ss \div sizeDirEntry) # 0 THEN Fail(f3, frNoFilesystem)
        ELSE IF sectorsReserved = 0 THEN Fail(f3, frNoFilesystem)
        ELSE IF sectorsTotal < sectorsNonApplication \/ clustersTotal = 0
        THEN Fail(f3, frNoFilesystem)
        ELSE IF clustersTotal > clustMaxFAT32 THEN Fail(f3, frNoFilesystem)
        ELSE IF fmt = fstypeFAT32 /\ (GetU16(win, bpbFSVer32) # 0 \/ nrootdir # 0)
        THEN Fail(f4, frNoFilesystem)
        ELSE IF fmt # fstypeFAT32 /\ nrootdir = 0 THEN Fail(f4, frNoFilesystem)
        ELSE [m |-> [m6 EXCEPT !.fs.fstype = fmt, !.fs.id = (@ + 1) % idModulus],
              fr |-> frOK]

makeBlockIndexer(blockSize) == blockSize > 0 /\ BitAnd(blockSize, blockSize - 1) = 0

mount_volume(m, ssize, mode) ==
    LET m0 == [m EXCEPT !.fs.fstype = fstypeUnknown]
        m1 == [m0 EXCEPT !.fs.id = (@ + 1) % idModulus, !.fs.ssize = ssize, !.fs.perm = mode]
        v  == invoke("find_volume", <<m1>>)
    IN  IF ~makeBlockIndexer(ssize) THEN [m |-> m0, fr |-> frInvalidParameter]
        ELSE IF v.st = bootsectorstatusDiskError THEN [m |-> v.m, fr |-> frDiskErr]
        ELSE IF v.st \in {bootsectorstatusNotFATInvalidBS, bootsectorstatusNotFATValidBS}
        THEN [m |-> v.m, fr |-> frNoFilesystem]
        ELSE IF v.st = bootsectorstatusExFAT THEN [m |-> v.m, fr |-> frUnsupported]
        ELSE invoke("init_fat", <<v.m>>)

\* ------------------------------------------------------- the volume image
\* the names on the volume and in the paths: ROOTFILE, ROFILE, ROOTDIR,
\* DIRFILE, NEWFILE, MISSING
Name == [rootfile |-> <<82, 79, 79, 84, 70, 73, 76, 69>>,
         rofile |-> <<82, 79, 70, 73, 76, 69>>,
         rootdir |-> <<82, 79, 79, 84, 68, 73, 82>>,
         dirfile |-> <<68, 73, 82, 70, 73, 76, 69>>,
         newfile |-> <<78, 69, 87, 70, 73, 76, 69>>,
         missing |-> <<77, 73, 83, 83, 73, 78, 71>>,
         plain |-> <<65, 66>>,
         long |-> <<116, 104, 105, 115, 32, 105, 115, 32, 97, 32, 108, 111, 110, 103, 32,
                    110, 97, 109, 101, 46, 116, 120, 116>>]
\* the 11 bytes of a directory entry that hold a name without extension
Pad11(n) == [k \in 1..11 |-> IF k <= Len(n) THEN n[k] ELSE Ch.space]

\* the contents of the two files of the image
RootFileData == [i \in 1..(SectorSize + 8) |-> 100 + (i % 100)]
DirFileData == <<71, 72, 73>>

\* a directory entry stored at offset off of a sector
EntryAt(sec, off, e) ==
    Puts(sec, CopyTo(off + dirNameOff, Pad11(e.name))
              \o <<<<off + dirAttrOff, e.attr>>>>
              \o PutUint16(off + dirFstClusHIOff, e.clust \div 65536)
              \o PutUint16(off + dirFstClusLOOff, e.clust % 65536)
              \o PutUint32(off + dirFileSizeOff, e.size))

RECURSIVE DirSector(_, _, _)
\* sector j of a directory table holding the entries ents[i..]
DirSector(ents, j, i) ==
    IF i > Len(ents) THEN EmptySect
    ELSE LET off == (i - 1) * sizeDirEntry
         IN  IF off \div SectorSize = j
             THEN EntryAt(DirSector(ents, j, i + 1), off % SectorSize, ents[i])
             ELSE DirSector(ents, j, i + 1)

\* sector j of a file holding the bytes b
DataSector(b, j) ==
    [k \in {x \in 0..(SectorSize - 1) : j * SectorSize + x + 1 <= Len(b)}
        |-> b[j * SectorSize + k + 1]]

BootSector ==
    Puts(EmptySect,
         <<<<bsJmpBoot, 235>>, <<bsOEMName, Str.mkfs>>>>
         \o PutUint16(bpbBytsPerSec, SectorSize)
         \o <<<<bpbSecPerClus, ClusterSize>>>>
         \o PutUint16(bpbRsvdSecCnt, RsvdSecCnt)
         \o <<<<bpbNumFATs, 2>>>>
         \o PutUint32(bpbTotSec32, TotSec32)
         \o PutUint32(bpbFATSz32, FATSz32)
         \o PutUint32(bpbRootClus32, 2)
         \o PutUint16(bpbFSInfo32, 1)
         \o <<<<bsFilSysType32, Str.fat32>>>>
         \o PutUint16(bs55AA, 43605))

\* clusters 2..5 are in use on the image, each a chain of one cluster
FSInfoSector ==
    Puts(EmptySect,
         PutUint16(bs55AA, 43605)
         \o PutUint32(fsiLeadSig, 1096897106)
         \o PutUint32(fsiStrucSig, 1631679090)
         \o PutUint32(fsiFree_Count, (TotSec32 - DataBase) \div ClusterSize - 4)
         \o PutUint32(fsiNxt_Free, 5))

FATSector ==
    Puts(EmptySect,
         PutUint32(0, 268435448) \o PutUint32(4, mask28bits) \o PutUint32(8, mask28bits)
         \o PutUint32(12, mask28bits) \o PutUint32(16, mask28bits)
         \o PutUint32(20, mask28bits))

\* the entries of the root directory when ROOTFILE holds the bytes data
RootEntriesOf(data) ==
    << [name |-> Name.rootfile, attr |-> amARC, clust |-> 4, size |-> Len(data)],
       [name |-> Name.rofile, attr |-> amARC + amRDO, clust |-> 0, size |-> 0],
       [name |-> Name.rootdir, attr |-> amDIR, clust |-> 3, size |-> 0] >>
RootEntries == RootEntriesOf(RootFileData)
SubdirEntries ==
    << [name |-> <<DotName>>, attr |-> amDIR, clust |-> 3, size |-> 0],
       [name |-> <<DotName, DotName>>, attr |-> amDIR, clust |-> 0, size |-> 0],
       [name |-> Name.dirfile, attr |-> amARC, clust |-> 5, size |-> Len(DirFileData)] >>

\* the device as formatted: boot sector, FSInfo, two FATs, the root
\* directory (cluster 2), ROOTDIR (cluster 3), ROOTFILE (4) holding the bytes
\* data, DIRFILE (5)
ImageOf(data) ==
    LET cl(n) == DataBase + ClusterSize * (n - 2)
        d1 == DevPutN([k \in {} |-> EmptySect], 0, <<BootSector, FSInfoSector>>, 1)
        d2 == DevPut(DevPut(d1, RsvdSecCnt, FATSector), RsvdSecCnt + FATSz32, FATSector)
        d3 == DevPutN(d2, cl(2),
                      [j \in 1..ClusterSize |-> DirSector(RootEntriesOf(data), j - 1, 1)], 1)
        d4 == DevPutN(d3, cl(3), [j \in 1..ClusterSize |-> DirSector(SubdirEntries, j - 1, 1)], 1)
        d5 == DevPutN(d4, cl(4), [j \in 1..ClusterSize |-> DataSector(data, j - 1)], 1)
    IN  DevPutN(d5, cl(5), [j \in 1..ClusterSize |-> DataSector(DirFileData, j - 1)], 1)
Image == ImageOf(RootFileData)

\* the largest cluster size that a boot sector can give, in sectors
MaxClusterSize == 128
\* the same volume with clusters of MaxClusterSize sectors
ImageBig ==
    LET cl(n) == DataBase + MaxClusterSize * (n - 2)
        boot == Put(BootSector, bpbSecPerClus, MaxClusterSize)
        fsi == PutU32(FSInfoSector, fsiFree_Count,
                      (TotSec32 - DataBase) \div MaxClusterSize - 4)
        d1 == DevPutN([k \in {} |-> EmptySect], 0, <<boot, fsi>>, 1)
        d2 == DevPut(DevPut(d1, RsvdSecCnt, FATSector), RsvdSecCnt + FATSz32, FATSector)
        d3 == DevPutN(d2, cl(2), [j \in 1..2 |-> DirSector(RootEntries, j - 1, 1)], 1)
        d4 == DevPutN(d3, cl(3), [j \in 1..2 |-> DirSector(SubdirEntries, j - 1, 1)], 1)
        d5 == DevPutN(d4, cl(4), [j \in 1..2 |-> DataSector(RootFileData, j - 1)], 1)
    IN  DevPutN(d5, cl(5), [j \in 1..2 |-> DataSector(DirFileData, j - 1)], 1)

\* a device whose boot sector announces root directory entries on a volume
\* of FAT32 size, which init_fat rejects
BadRootBootSector == PutU16(BootSector, bpbRootEntCnt, SectorSize \div sizeDirEntry)
ImageBadRoot == DevPut(Image, 0, BadRootBootSector)
\* the volume with a volume label and a deleted entry before the entries of
\* the root directory
ListEntries ==
    << [name |-> <<86, 79, 76>>, attr |-> amVOL, clust |-> 0, size |-> 0],
       [name |-> <<mskDDEM, 76, 68>>, attr |-> amARC, clust |-> 0, size |-> 7] >>
    \o RootEntries
ImageList ==
    DevPutN(Image, DataBase,
            [j \in 1..ClusterSize |-> DirSector(ListEntries, j - 1, 1)], 1)
\* a device with the boot sector of an exFAT volume
ExFATBootSector ==
    Puts(EmptySect, <<<<bsJmpBoot, 235>>, <<1, 118>>, <<2, 144>>, <<bsOEMName, Str.exfat>>>>
                    \o PutUint16(bs55AA, 43605))
ImageExFAT == DevPut(Image, 0, ExFATBootSector)
\* a device that holds no volume
ImageBlank == [k \in {} |-> EmptySect]

\* the zero value of FS
ZeroFS ==
    [fstype |-> fstypeUnknown, nFATs |-> 0, wflag |-> 0, fsi_flag |-> 0, csize |-> 0,
     ssize |-> 0, last_clst |-> 0, free_clst |-> 0, n_fatent |-> 0, fsize |-> 0,
     volbase |-> 0, fatbase |-> 0, dirbase |-> 0, database |-> 0, winsect |-> 0,
     win |-> EmptySect, id |-> 0, perm |-> 0, nrootdir |-> 0,
     lfnbuf |-> EmptySect]

\* ------------------------------------------------------- the exported API
\* error values of the API that are not fileResult codes
errInvalidMode == 101
errForbiddenMode == 102
errSectorSize == 103
ioEOF == 104

Mount(m, blockSize, mode) ==
    IF BitClear(mode, ModeRW) # 0 THEN [m |-> m, err |-> errInvalidMode]
    ELSE IF blockSize > maxu16 THEN [m |-> m, err |-> errSectorSize]
    ELSE LET r == invoke("mount_volume", <<m, blockSize, mode>>)
         IN  [m |-> r.m, err |-> r.fr]

\* Mount on a block device bd that need not be the one mounted before:
\* mount_volume takes the device once the block size is accepted
MountDevice(m, bd, blockSize, mode) ==
    LET r == invoke("Mount", <<[m EXCEPT !.dev = bd], blockSize, mode>>)
    IN  IF r.m.fs.id = m.fs.id THEN [r EXCEPT !.m.dev = m.dev] ELSE r

\* OpenFile without the tests of the mode
OpenFile_unchecked(m, fp, path, mode) ==
    LET r == invoke("f_open", <<m, fp, path, mode>>)
    IN  [m |-> r.m, fp |-> r.fp, err |-> r.fr]

OpenFile(m, fp, path, mode) ==
    LET prohibited == BitClear(BitAnd(mode, ModeRW), m.fs.perm)
        r == invoke("f_open", <<m, fp, path, mode>>)
    IN  IF BitClear(mode, allowedModes) # 0 THEN [m |-> m, fp |-> fp, err |-> errInvalidMode]
        ELSE IF prohibited # 0 THEN [m |-> m, fp |-> fp, err |-> errForbiddenMode]
        ELSE [m |-> r.m, fp |-> r.fp, err |-> r.fr]

Read(m, fp, buflen) ==
    LET r == invoke("f_read", <<m, fp, buflen>>)
    IN  IF validate(fp, m.fs) # frOK
        THEN [m |-> m, fp |-> fp, n |-> 0, err |-> frInvalidObject, out |-> <<>>]
        ELSE [m |-> r.m, fp |-> r.fp, n |-> r.br, out |-> r.out,
              err |-> IF r.fr # frOK THEN r.fr ELSE IF r.br = 0 THEN ioEOF ELSE frOK]

Write(m, fp, buf) ==
    LET r == invoke("f_write", <<m, fp, buf>>)
    IN  IF validate(fp, m.fs) # frOK
        THEN [m |-> m, fp |-> fp, n |-> 0, err |-> frInvalidObject]
        ELSE [m |-> r.m, fp |-> r.fp, n |-> r.bw, err |-> r.fr]

Close(m, fp) ==
    LET r == invoke("f_close", <<m, fp>>)
    IN  IF validate(fp, m.fs) # frOK THEN [m |-> m, fp |-> fp, err |-> frInvalidObject]
        ELSE [m |-> r.m, fp |-> r.fp, err |-> r.fr]

Sync(m, fp) ==
    LET r == invoke("fs_sync", <<m>>)
    IN  IF validate(fp, m.fs) # frOK THEN [m |-> m, fp |-> fp, err |-> frInvalidObject]
        ELSE [m |-> r.m, fp |-> fp, err |-> r.fr]

OpenDir(m, d, path) ==
    LET r == invoke("f_opendir", <<m, d, path>>)
    IN  [m |-> r.m, d |-> r.d, err |-> r.fr]

\* the error of a callback that fails
errCallback == 300
\* one turn of the loop of ForEachFile; s.names are the FileInfo values
\* handed to the callback, which fails on its failAt-th call (never for 0)
ForEachFile_body(failAt, s) ==
    LET r    == invoke("f_readdir", <<s.m, s.d>>)
        info == r.d.info
        seen == Append(s.names, [name |-> FileInfo_Name(info),
                                 alt |-> FileInfo_AlternateName(info),
                                 dir |-> BitAnd(info.fattrib, amDIR) # 0,
                                 attr |-> info.fattrib, size |-> info.fsize])
    IN  CASE r.fr # frOK
             -> [m |-> r.m, d |-> r.d, err |-> r.fr, names |-> s.names, done |-> TRUE]
          [] r.fr = frOK /\ FileInfo_Name(info) = <<>>
             -> [m |-> r.m, d |-> r.d, err |-> frOK, names |-> s.names, done |-> TRUE]
          [] OTHER
             -> [m |-> r.m, d |-> r.d, names |-> seen,
                 err |-> IF Len(seen) = failAt THEN errCallback ELSE frOK,
                 done |-> Len(seen) = failAt]
RECURSIVE ForEachFile_loop(_, _)
ForEachFile_loop(failAt, s) ==
    IF s.done THEN s ELSE ForEachFile_loop(failAt, ForEachFile_body(failAt, s))

ForEachFile(m, d, failAt) ==
    LET s == invoke("sdi", <<m, d, 0>>)
        r == invoke("ForEachFile_loop",
                    <<failAt, [m |-> s.m, d |-> s.d, err |-> frOK, names |-> <<>>,
                               done |-> FALSE]>>)
    IN  IF validate(d, m.fs) # frOK
        THEN [m |-> m, d |-> d, err |-> frInvalidObject, names |-> <<>>]
        ELSE IF ~Has(m.fs.perm, ModeRead)
        THEN [m |-> m, d |-> d, err |-> errForbiddenMode, names |-> <<>>]
        ELSE IF s.fr # frOK THEN [m |-> s.m, d |-> s.d, err |-> s.fr, names |-> <<>>]
        ELSE [m |-> r.m, d |-> r.d, err |-> r.err, names |-> r.names]

\* ------------------------------------------------ sizes beyond 31 bits
\* An int64 of the driver whose value does not fit a model integer is held
\* as [hi, lo], standing for hi * 2^16 + lo with lo in 0..2^16-1.  hi stays
\* far below 2^47, where an int64 wraps.
Wide(hi, lo) == [hi |-> hi, lo |-> lo]
\* int64(maxu32)
wideMaxu32 == Wide(65535, 65535)
\* a + n for an int n >= 0
wideAdd(a, n) == Wide(a.hi + (a.lo + n) \div 65536, (a.lo + n) % 65536)
wideLess(a, b) == a.hi < b.hi \/ (a.hi = b.hi /\ a.lo < b.lo)
wideMax(a, b) == IF wideLess(a, b) THEN b ELSE a
\* the int a - b
wideSub(a, b) == (a.hi - b.hi) * 65536 + (a.lo - b.lo)
\* int64(uint32(a))
wideUint32(a) == Wide(a.hi % 65536, a.lo)

\* f_write, the number of bytes to write: len(buf), clipped when fptr plus
\* len(buf) is less than fptr
f_write_btw(fptr, buflen) ==
    IF wideLess(wideAdd(fptr, buflen), fptr) THEN wideSub(wideMaxu32, fptr) ELSE buflen
\* f_write, fptr and objsize: on a device that does not fail and has free
\* clusters every turn of the loop adds the bytes it stored to fptr and bw
\* until btw bytes are stored
f_write_size(fptr, objsize, buflen) ==
    LET btw == f_write_btw(fptr, buflen)
        end == wideAdd(fptr, btw)
    IN  [fptr |-> end, objsize |-> wideMax(objsize, end), bw |-> btw]
\* f_sync, the file size stored in the directory entry
f_sync_size(objsize) == wideUint32(objsize)
\* f_open with faSEEKEND: objsize is the 32-bit size of the directory entry,
\* fptr is set to it
f_open_size(size) == [fptr |-> size, objsize |-> size]

\* --------------------------------------------------------------- dispatch
invoke(f, a) ==
    CASE f = "disk_write" -> disk_write(a[1], a[2], a[3], a[4], a[5])
      [] f = "disk_read" -> disk_read(a[1], a[2], a[3], a[4])
      [] f = "disk_erase" -> disk_erase(a[1], a[2], a[3])
      [] f = "sync_window" -> sync_window(a[1])
      [] f = "move_window" -> move_window(a[1], a[2])
      [] f = "clusterstat" -> clusterstat(a[1], a[2])
      [] f = "put_clusterstat" -> put_clusterstat(a[1], a[2], a[3])
      [] f = "create_chain_scan" -> create_chain_scan(a[1], a[2], a[3])
      [] f = "create_chain_link" -> create_chain_link(a[1], a[2], a[3])
      [] f = "create_chain" -> create_chain(a[1], a[2])
      [] f = "remove_chain_loop" -> remove_chain_loop(a[1], a[2])
      [] f = "remove_chain" -> remove_chain(a[1], a[2], a[3])
      [] f = "dir_clear" -> dir_clear(a[1], a[2])
      [] f = "fs_sync" -> fs_sync(a[1])
      [] f = "sdi_walk" -> sdi_walk(a[1], a[2], a[3], a[4])
      [] f = "sdi" -> sdi(a[1], a[2], a[3])
      [] f = "next" -> next(a[1], a[2], a[3])
      [] f = "sum_sfn" -> sum_sfn(a[1])
      [] f = "create_name" -> create_name(a[1], a[2])
      [] f = "gen_numname" -> gen_numname(a[1], a[2], a[3])
      [] f = "put_lfn" -> put_lfn(a[1], a[2], a[3], a[4], a[5])
      [] f = "pick_lfn" -> pick_lfn(a[1], a[2], a[3])
      [] f = "cmp_lfn" -> cmp_lfn(a[1], a[2], a[3])
      [] f = "find_loop" -> find_loop(a[1])
      [] f = "find" -> find(a[1], a[2])
      [] f = "dir_read_loop" -> dir_read_loop(a[1])
      [] f = "dir_read" -> dir_read(a[1], a[2])
      [] f = "get_fileinfo_lfn" -> get_fileinfo_lfn(a[1])
      [] f = "get_fileinfo_sfn" -> get_fileinfo_sfn(a[1], a[2], a[3])
      [] f = "get_fileinfo" -> get_fileinfo(a[1], a[2], a[3])
      [] f = "f_readdir" -> f_readdir(a[1], a[2])
      [] f = "alloc_loop" -> alloc_loop(a[1], a[2])
      [] f = "alloc" -> alloc(a[1], a[2], a[3])
      [] f = "register_number" -> register_number(a[1], a[2], a[3], a[4])
      [] f = "register_lfn" -> register_lfn(a[1], a[2], a[3], a[4])
      [] f = "register" -> register(a[1], a[2])
      [] f = "follow_path_loop" -> follow_path_loop(a[1], a[2], a[3])
      [] f = "follow_path" -> follow_path(a[1], a[2], a[3])
      [] f = "f_opendir" -> f_opendir(a[1], a[2], a[3])
      [] f = "seekend_walk" -> seekend_walk(a[1], a[2], a[3], a[4])
      [] f = "f_open_truncate" -> f_open_truncate(a[1], a[2])
      [] f = "f_open_attach" -> f_open_attach(a[1], a[2], a[3], a[4])
      [] f = "f_open" -> f_open(a[1], a[2], a[3], a[4])
      [] f = "f_sync" -> f_sync(a[1], a[2])
      [] f = "f_close" -> f_close(a[1], a[2])
      [] f = "f_read_loop" -> f_read_loop(a[1], a[2], a[3], a[4], a[5], a[6])
      [] f = "f_read" -> f_read(a[1], a[2], a[3])
      [] f = "f_write_loop" -> f_write_loop(a[1], a[2], a[3], a[4], a[5], a[6])
      [] f = "f_write" -> f_write(a[1], a[2], a[3])
      [] f = "check_fs" -> check_fs(a[1], a[2])
      [] f = "find_volume_scan" -> find_volume_scan(a[1], a[2], a[3])
      [] f = "find_volume" -> find_volume(a[1])
      [] f = "init_fat" -> init_fat(a[1])
      [] f = "mount_volume" -> mount_volume(a[1], a[2], a[3])
      [] f = "Mount" -> Mount(a[1], a[2], a[3])
      [] f = "MountDevice" -> MountDevice(a[1], a[2], a[3], a[4])
      [] f = "OpenFile" -> OpenFile(a[1], a[2], a[3], a[4])
      [] f = "Read" -> Read(a[1], a[2], a[3])
      [] f = "Write" -> Write(a[1], a[2], a[3])
      [] f = "Close" -> Close(a[1], a[2])
      [] f = "Sync" -> Sync(a[1], a[2])
      [] f = "OpenDir" -> OpenDir(a[1], a[2], a[3])
      [] f = "ForEachFile_loop" -> ForEachFile_loop(a[1], a[2])
      [] f = "ForEachFile" -> ForEachFile(a[1], a[2], a[3])

\* ------------------------------------------------------- the state machine
\* dev   the contents of the block device
\* bad   the device currently fails every transfer
\* fuse  the number of transfers after which the device starts to fail
\* fs    the FS value
\* fp    the caller's File value, dp the caller's Dir value
\* io    the device calls issued by the last API call
\* last  the last API call: its arguments, what it returned and the fields
\*       of the handles and of the FS just before it
\* nops  the number of API calls made
\* gfile for each file path, the bytes its writers meant it to hold (data)
\*       and whether it was created with ModeCreateAlways|ModeWrite, written
\*       only through that handle and closed with nil since (ok), and
\*       whether the image lacks it and no OpenFile has been asked to
\*       create it (absent)
\* gh    for the File value: the path it was opened on, whether it was
\*       opened with ModeCreateAlways|ModeWrite (creating), the bytes the
\*       Reads since OpenFile returned (acc), whether it has only been
\*       read since it was opened at offset 0 (seq), and whether Close
\*       returned nil on it and no OpenFile has reached f_open since (closed),
\*       and whether a Mount has completed since it was opened (stale)
\* gd    for the Dir value: whether a Mount has completed since it was opened
VARIABLES dev, bad, fuse, fs, fp, dp, io, last, nops, gfile, gh, gd

vars == <<dev, bad, fuse, fs, fp, dp, io, last, nops, gfile, gh, gd>>

\* the name "a", k spaces, "b": for every k its 8.3 form is AB, numbered
Spaced(k) == <<97>> \o [i \in 1..k |-> Ch.space] \o <<98>>
CollidePaths == {<<Spaced(k)>> : k \in 1..6}
\* the paths that name nothing on the image
NewPaths == {<<Name.newfile>>, <<Name.missing>>, <<Name.plain>>, <<Name.long>>}
            \cup CollidePaths
GPaths == {<<Name.rootfile>>, <<Name.rofile>>, <<Name.rootdir, Name.dirfile>>}
          \cup NewPaths
\* the mode bits with which OpenFile may create the file
CreateFlags == faCreateNew + faCreateAlways + faOpenAlways
NoHandle == [path |-> <<>>, creating |-> FALSE, acc |-> <<>>, seq |-> FALSE,
             closed |-> FALSE, stale |-> FALSE]
NoCall == [op |-> "none", path |-> <<>>, mode |-> 0, len |-> 0, n |-> 0, err |-> frOK,
           out |-> <<>>, names |-> <<>>]

\* the state in which the running call starts
M0 == [dev |-> dev, fs |-> fs, io |-> <<>>, bad |-> bad, fuse |-> fuse]
\* what `last` records of the state before the call; listed holds the
\* callback's failing call, the result and the FileInfo values of a
\* ForEachFile that was the call before
Pre == [valid |-> validate(fp, fs) = frOK, attached |-> fp.fs, flag |-> fp.flag,
        fptr |-> fp.fptr, objsize |-> fp.objsize, ferr |-> fp.err,
        dvalid |-> validate(dp, fs) = frOK, perm |-> fs.perm, bad |-> bad,
        fstype |-> fs.fstype, closed |-> gh.closed, fresh |-> fp = ZeroFile,
        stale |-> gh.stale, dattached |-> dp.fs, dstale |-> gd.stale,
        listed |-> IF last.op = "ForEachFile"
                   THEN <<[failAt |-> last.len, err |-> last.err, names |-> last.names]>>
                   ELSE <<>>]
\* a call may start: fewer than max steps were made and no call is stuck
Running(max) == nops < max /\ last.err # noReturn
Call(op, path, mode, len, n, err, out, names) ==
    [op |-> op, path |-> path, mode |-> mode, len |-> len, n |-> n, err |-> err,
     out |-> out, names |-> names, pre |-> Pre]

\* the buffer of len bytes that a Write passes
WBuf(len) == [i \in 1..len |-> 1 + (i % 9)]
\* data with buf written at offset pos
Overwrite(data, pos, buf) ==
    [i \in 1..Max(Len(data), pos + Len(buf)) |->
        IF i > pos /\ i <= pos + Len(buf) THEN buf[i - pos]
        ELSE IF i <= Len(data) THEN data[i] ELSE 0]

\* the state after construction, the device being image and its ROOTFILE
\* holding the bytes data
InitOn(image, data) ==
    /\ dev = image
    /\ bad = FALSE
    /\ fuse = NoFuse
    /\ fs = ZeroFS
    /\ fp = ZeroFile
    /\ dp = ZeroDir
    /\ io = <<>>
    /\ last = [NoCall EXCEPT !.op = "new"] @@ [pre |-> [valid |-> FALSE,
                 attached |-> FALSE, flag |-> 0, fptr |-> 0, objsize |-> 0, ferr |-> 0,
                 dvalid |-> FALSE, perm |-> 0, bad |-> FALSE, fstype |-> 0,
                 closed |-> FALSE, fresh |-> TRUE, stale |-> FALSE,
                 dattached |-> FALSE, dstale |-> FALSE, listed |-> <<>>]]
    /\ nops = 0
    /\ gfile = [p \in GPaths |->
                  [data |-> IF p = <<Name.rootfile>> THEN data
                            ELSE IF p = <<Name.rootdir, Name.dirfile>> THEN DirFileData
                            ELSE <<>>,
                   ok |-> FALSE,
                   absent |-> p \in NewPaths]]
    /\ gh = NoHandle
    /\ gd = [stale |-> FALSE]
Init == InitOn(Image, RootFileData)

\* the part of every API call that stores the machine state it ends in
Done(m, l) ==
    /\ dev' = m.dev
    /\ fs' = m.fs
    /\ io' = m.io
    /\ last' = l
    /\ nops' = nops + 1
    /\ fuse' = m.fuse
    /\ UNCHANGED bad

CallMount(max, sizes, modes) ==
    /\ Running(max)
    /\ \E blockSize \in sizes, mode \in modes :
         \E r \in {invoke("Mount", <<M0, blockSize, mode>>)} :
             /\ Done(r.m, Call("Mount", <<>>, mode, blockSize, 0, r.err, <<>>, <<>>))
             /\ gh' = IF r.err = frOK THEN [gh EXCEPT !.stale = TRUE] ELSE gh
             /\ gd' = IF r.err = frOK THEN [gd EXCEPT !.stale = TRUE] ELSE gd
    /\ UNCHANGED <<fp, dp, gfile>>

CallMountDevice(max, devs, sizes, modes) ==
    /\ Running(max)
    /\ \E bd \in devs, blockSize \in sizes, mode \in modes :
         \E r \in {invoke("MountDevice", <<M0, bd, blockSize, mode>>)} :
             /\ Done(r.m, Call("Mount", <<>>, mode, blockSize, 0, r.err, <<>>, <<>>))
             /\ gh' = IF r.err = frOK THEN [gh EXCEPT !.stale = TRUE] ELSE gh
             /\ gd' = IF r.err = frOK THEN [gd EXCEPT !.stale = TRUE] ELSE gd
    /\ UNCHANGED <<fp, dp, gfile>>

CallOpenFile(max, paths, modes) ==
    /\ Running(max)
    /\ \E path \in paths, mode \in modes :
         \E r \in {invoke("OpenFile", <<M0, fp, path, mode>>)} :
             /\ Done(r.m, Call("OpenFile", path, mode, 0, 0, r.err, <<>>, <<>>))
             /\ fp' = r.fp
             /\ gfile' = IF path \in GPaths /\ BitAnd(mode, CreateFlags) # 0
                         THEN [gfile EXCEPT ![path] =
                                  [data |-> IF r.err = frOK /\ Has(mode, faCreateAlways)
                                            THEN <<>> ELSE @.data,
                                   ok |-> @.ok /\ ~Has(mode, faCreateAlways),
                                   absent |-> FALSE]]
                         ELSE gfile
             /\ gh' = IF r.err = frOK /\ path \in GPaths
                      THEN [path |-> path, acc |-> <<>>, seq |-> r.fp.fptr = 0,
                            closed |-> FALSE, stale |-> FALSE,
                            creating |-> Has(mode, faCreateAlways) /\ Has(mode, faWrite)
                                         /\ ~bad]
                      ELSE IF r.fp = fp THEN gh ELSE NoHandle
    /\ UNCHANGED <<dp, gd>>

CallRead(max, lens) ==
    /\ Running(max)
    /\ \E len \in lens :
         \E r \in {invoke("Read", <<M0, fp, len>>)} :
             /\ Done(r.m, Call("Read", gh.path, 0, len, r.n, r.err, r.out, <<>>))
             /\ fp' = r.fp
             /\ gh' = IF validate(fp, fs) = frOK /\ r.err \in {frOK, ioEOF}
                      THEN [gh EXCEPT !.acc = @ \o r.out] ELSE gh
    /\ UNCHANGED <<dp, gfile, gd>>

CallWrite(max, lens) ==
    /\ Running(max)
    /\ \E len \in lens :
         \E r \in {invoke("Write", <<M0, fp, WBuf(len)>>)} :
         LET meant == /\ validate(fp, fs) = frOK /\ fp.err = frOK /\ gh.path \in GPaths
                      /\ Has(fp.flag, faWrite) /\ Has(fs.perm, ModeWrite)
         IN  /\ Done(r.m, Call("Write", gh.path, 0, len, r.n, r.err, <<>>, <<>>))
             /\ fp' = r.fp
             /\ gfile' = IF meant
                         THEN [gfile EXCEPT ![gh.path] =
                                  [@ EXCEPT !.data = Overwrite(@, fp.fptr, WBuf(len)),
                                            !.ok = FALSE]]
                         ELSE gfile
             /\ gh' = IF meant THEN [gh EXCEPT !.seq = FALSE] ELSE gh
    /\ UNCHANGED <<dp, gd>>

CallSync(max) ==
    /\ Running(max)
    /\ \E r \in {invoke("Sync", <<M0, fp>>)} :
           /\ Done(r.m, Call("Sync", gh.path, 0, 0, 0, r.err, <<>>, <<>>))
           /\ fp' = r.fp
    /\ UNCHANGED <<dp, gfile, gh, gd>>

CallClose(max) ==
    /\ Running(max)
    /\ \E r \in {invoke("Close", <<M0, fp>>)} :
           /\ Done(r.m, Call("Close", gh.path, 0, 0, 0, r.err, <<>>, <<>>))
           /\ fp' = r.fp
           /\ gfile' = IF r.err = frOK /\ gh.creating
                       THEN [gfile EXCEPT ![gh.path].ok = TRUE] ELSE gfile
           /\ gh' = IF r.err = frOK THEN [NoHandle EXCEPT !.closed = TRUE] ELSE gh
    /\ UNCHANGED <<dp, gd>>

CallOpenDir(max, paths) ==
    /\ Running(max)
    /\ \E path \in paths :
         \E r \in {invoke("OpenDir", <<M0, dp, path>>)} :
             /\ Done(r.m, Call("OpenDir", path, 0, 0, 0, r.err, <<>>, <<>>))
             /\ dp' = r.d
             /\ gd' = IF r.err = frOK THEN [stale |-> FALSE] ELSE gd
    /\ UNCHANGED <<fp, gfile, gh>>

\* ForEachFile with a callback that fails on its failAt-th call
CallForEachFile(max, fails) ==
    /\ Running(max)
    /\ \E failAt \in fails :
         \E r \in {invoke("ForEachFile", <<M0, dp, failAt>>)} :
           /\ Done(r.m, Call("ForEachFile", <<>>, 0, failAt, Len(r.names), r.err, <<>>,
                             r.names))
           /\ dp' = r.d
    /\ UNCHANGED <<fp, gfile, gh, gd>>

\* the environment: the device starts or stops failing
SetDevice(max) ==
    /\ Running(max)
    /\ bad' = ~bad
    /\ nops' = nops + 1
    /\ io' = <<>>
    /\ last' = Call("SetDevice", <<>>, 0, 0, 0, frOK, <<>>, <<>>)
    /\ gfile' = [p \in GPaths |-> [gfile[p] EXCEPT !.ok = FALSE]]
    /\ gh' = [gh EXCEPT !.creating = FALSE, !.seq = FALSE]
    /\ UNCHANGED <<dev, fuse, fs, fp, dp, gd>>

\* the environment: the device will fail after n more transfers
SetFuse(max, counts) ==
    /\ Running(max)
    /\ \E n \in counts : fuse' = n
    /\ nops' = nops + 1
    /\ io' = <<>>
    /\ last' = Call("SetFuse", <<>>, 0, 0, 0, frOK, <<>>, <<>>)
    /\ gfile' = [p \in GPaths |-> [gfile[p] EXCEPT !.ok = FALSE]]
    /\ gh' = [gh EXCEPT !.creating = FALSE, !.seq = FALSE]
    /\ UNCHANGED <<dev, bad, fs, fp, dp, gd>>

\* ------------------------------------------------------- specifications
\* Files are written, closed, reopened and read back on a read-write mount.
Next ==
    \/ CallMount(MaxOps, {SectorSize}, {ModeRW})
    \/ CallOpenFile(MaxOps, {<<Name.newfile>>}, {ModeRead, ModeCreateAlways + ModeWrite})
    \/ CallWrite(MaxOps, {1, ClusterBytes + 1})
    \/ CallRead(MaxOps, {ClusterBytes})
    \/ CallSync(MaxOps)
    \/ CallClose(MaxOps)

Spec == Init /\ [][Next]_vars

\* The files of the image are read with buffers of several lengths.
NextRead ==
    \/ CallMount(MaxOps, {SectorSize}, {ModeRead, ModeRW})
    \/ CallOpenFile(MaxOps, {<<Name.rootfile>>, <<Name.rootdir, Name.dirfile>>}, {ModeRead})
    \/ CallRead(MaxOps, {1, SectorSize + 1, ClusterBytes})
    \/ CallClose(MaxOps)

SpecRead == Init /\ [][NextRead]_vars

\* The device fails and recovers while a file is read and written.
NextFault ==
    \/ CallMount(MaxOps, {SectorSize}, {ModeRW})
    \/ CallOpenFile(MaxOps, {<<Name.rootfile>>}, {ModeRead, ModeRW})
    \/ CallRead(MaxOps, {1, SectorSize})
    \/ CallWrite(MaxOps, {1})
    \/ CallClose(MaxOps)
    \/ SetDevice(MaxOps)

SpecFault == Init /\ [][NextFault]_vars

\* Handles are opened, used, closed and used again.
NextHandle ==
    \/ CallMount(MaxOps - 1, {SectorSize}, {ModeRead, ModeRW})
    \/ CallOpenFile(MaxOps - 1, {<<Name.rootfile>>, <<Name.newfile>>},
                    {ModeRead, ModeWrite, ModeCreateAlways + ModeWrite})
    \/ CallRead(MaxOps - 1, {1, SectorSize})
    \/ CallWrite(MaxOps - 1, {1, SectorSize})
    \/ CallSync(MaxOps - 1)
    \/ CallClose(MaxOps - 1)

SpecHandle == Init /\ [][NextHandle]_vars

\* Every kind of path is opened with every kind of mode on every kind of mount.
OpenPaths == {<<Name.rootfile>>, <<Name.rofile>>, <<Name.rootdir>>, <<Name.missing>>,
              <<Name.newfile>>, <<Name.rootdir, Name.dirfile>>}
OpenModes == {ModeRead, ModeWrite, ModeRW, ModeCreateAlways + ModeWrite,
              faMODIFIED + ModeRead, faDIRTY + ModeWrite}
NextOpen ==
    \/ CallMount(MaxWide, {SectorSize}, {ModeRead, ModeWrite, ModeRW})
    \/ CallOpenFile(MaxWide, OpenPaths, OpenModes)
    \/ CallClose(MaxWide)

SpecOpen == Init /\ [][NextOpen]_vars

\* Paths that exist and a path that does not are opened with the create flags.
CreatePaths == {<<Name.rootfile>>, <<Name.rofile>>, <<Name.rootdir>>, <<Name.newfile>>,
                <<Name.rootdir, Name.dirfile>>}
CreateModes == {faCreateNew + ModeWrite, faCreateNew + ModeRead, faOpenAlways + ModeRead,
                faOpenAlways + ModeRW, faCreateNew + faOpenAlways + ModeRW}
NextCreate ==
    \/ CallMount(MaxWide, {SectorSize}, {ModeRead, ModeRW})
    \/ CallOpenFile(MaxWide, CreatePaths, CreateModes)
    \/ CallClose(MaxWide)

SpecCreate == Init /\ [][NextCreate]_vars

\* Paths of every kind are resolved by OpenFile and by OpenDir, also while
\* the window holds the entry of a file just created.
ResolvePaths ==
    {<<Name.rootfile>>, <<Name.rootdir>>, <<Name.missing>>,
     <<Name.rootdir, Name.dirfile>>, <<Name.rootdir, Name.missing>>,
     <<Name.missing, Name.dirfile>>, <<Name.rootfile, Name.dirfile>>,
     <<Name.rootdir, Name.dirfile, Name.missing>>,
     <<Name.rootdir, Name.missing, Name.dirfile>>}
NextPath ==
    \/ CallMount(MaxWide, {SectorSize}, {ModeRead, ModeRW})
    \/ CallOpenFile(MaxWide, ResolvePaths, {ModeRead, ModeRW})
    \/ CallOpenFile(MaxWide, {<<Name.newfile>>}, {ModeCreateAlways + ModeWrite})
    \/ CallOpenDir(MaxWide, ResolvePaths \cup {<<>>})

SpecPath == Init /\ [][NextPath]_vars

\* A file is created, written, synced and closed on a device that fails
\* after some number of transfers.
MaxFuse == 6
NextFuse ==
    \/ CallMount(MaxOps, {SectorSize}, {ModeRW})
    \/ CallOpenFile(MaxOps, {<<Name.newfile>>}, {ModeCreateAlways + ModeWrite})
    \/ CallWrite(MaxOps, {1})
    \/ CallSync(MaxOps)
    \/ CallClose(MaxOps)
    \/ SetFuse(MaxOps, 0..MaxFuse)

SpecFuse == Init /\ [][NextFuse]_vars

\* Devices with and without a FAT32 volume are mounted, with the right and a
\* wrong block size, on a device that may fail; files and directories are
\* opened after each Mount.
Devices == {Image, ImageBadRoot, ImageExFAT, ImageBlank}
NextMount ==
    \/ CallMountDevice(MaxWide, Devices, {SectorSize}, {ModeRead, ModeRW})
    \/ CallMount(MaxWide, {SectorSize, 2 * SectorSize}, {ModeRead})
    \/ CallOpenFile(MaxWide, {<<Name.rootfile>>, <<Name.rootdir, Name.dirfile>>},
                    {ModeRead, faOpenAlways + ModeRead})
    \/ CallOpenDir(MaxWide, {<<>>, <<Name.rootdir>>})
    \/ SetDevice(MaxWide)

SpecMount == Init /\ [][NextMount]_vars

\* Files of volumes with small and with large clusters are opened for
\* appending and written.
NextAppend ==
    \/ CallMountDevice(MaxOps, {Image, ImageBig}, {SectorSize}, {ModeRW})
    \/ CallOpenFile(MaxOps, {<<Name.rootfile>>, <<Name.rootdir, Name.dirfile>>},
                    {faOpenAppend + ModeWrite, faOpenAppend + ModeRW})
    \/ CallWrite(MaxOps, {1, SectorSize})
    \/ CallClose(MaxOps)

SpecAppend == Init /\ [][NextAppend]_vars

\* A File and a Dir are opened under the first mount; Mount is then called
\* until FS.id has taken every value, and the handles are used again.
NextGen ==
    \/ nops \notin {1, 2} /\ nops < MaxGen - 2
       /\ CallMount(MaxGen, {SectorSize}, {ModeRead})
    \/ nops = 1 /\ CallOpenFile(MaxGen, {<<Name.rootfile>>}, {ModeRead})
    \/ nops = 2 /\ CallOpenDir(MaxGen, {<<>>})
    \/ nops >= MaxGen - 2 /\ CallRead(MaxGen, {1})
    \/ nops >= MaxGen - 2 /\ CallForEachFile(MaxGen, {0})

\* ROOTFILE is short here: what it holds plays no part
GenFileData == <<71, 69, 78>>
InitGen == InitOn(ImageOf(GenFileData), GenFileData)
SpecGen == InitGen /\ [][NextGen]_vars

\* Files with a long name and with an 8.3 name are created in the root
\* directory and closed, and the root directory is listed.
MaxName == 6
NamePaths == {<<Name.plain>>, <<Name.long>>}
NextName ==
    \/ CallMount(MaxName, {SectorSize}, {ModeRead, ModeRW})
    \/ CallOpenFile(MaxName, NamePaths, {ModeCreateAlways + ModeWrite})
    \/ CallClose(MaxName)
    \/ CallOpenDir(MaxName, {<<>>})
    \/ CallForEachFile(MaxName, {0})

SpecName == Init /\ [][NextName]_vars

\* The volume is mounted read-write once; files whose names have the same
\* 8.3 form are then created one after the other and closed.
MaxCollide == 8
\* the colliding paths created so far and the next one
CollideNext == {p \in CollidePaths :
                  \A q \in CollidePaths : Len(q[1]) < Len(p[1]) => ~gfile[q].absent}
NextCollide ==
    \/ fs.fstype = 0 /\ CallMount(MaxCollide, {SectorSize}, {ModeRW})
    \/ fs.fstype # 0 /\ CallOpenFile(MaxCollide, CollideNext, {faCreateNew + ModeWrite})
    \/ CallClose(MaxCollide)

SpecCollide == Init /\ [][NextCollide]_vars

\* Directories that hold files, sub-directories, a volume label, a deleted
\* entry and the entries of a long name are listed, with callbacks that
\* succeed and callbacks that fail.
MaxList == 6
NextList ==
    \/ CallMountDevice(MaxList, {Image, ImageList}, {SectorSize}, {ModeRW})
    \/ CallOpenFile(MaxList, {<<Name.long>>}, {faCreateNew + ModeWrite})
    \/ CallClose(MaxList)
    \/ CallOpenDir(MaxList, {<<>>, <<Name.rootdir>>})
    \/ CallForEachFile(MaxList, {0, 1, 2})

SpecList == Init /\ [][NextList]_vars

\* A file of nearly 4 GiB is open for appending on a device that does not
\* fail and has free clusters; it is written and synced.  Only fptr, objsize
\* and the size stored by f_sync are followed; last.out holds that size.
MaxClip == 4
ClipSizes == {Wide(65535, 65536 - k) : k \in {1, 2, 16, 512, 513}}
ClipLens == {1, 15, 16, 17, 512}
ClipOpen(max) ==
    /\ Running(max)
    /\ \E size \in ClipSizes :
         \E r \in {f_open_size(size)} :
           /\ fp' = [ZeroFile EXCEPT !.fs = TRUE, !.flag = faWrite + faSEEKEND,
                                      !.fptr = r.fptr, !.objsize = r.objsize]
           /\ last' = Call("OpenFile", <<>>, faOpenAppend + ModeWrite, 0, 0, frOK, <<>>, <<>>)
    /\ nops' = nops + 1
    /\ UNCHANGED <<dev, bad, fuse, fs, dp, io, gfile, gh, gd>>
ClipWrite(max) ==
    /\ Running(max)
    /\ fp.fs
    /\ \E len \in ClipLens :
         \E r \in {f_write_size(fp.fptr, fp.objsize, len)} :
           /\ fp' = [fp EXCEPT !.fptr = r.fptr, !.objsize = r.objsize,
                               !.flag = BitOr(@, faMODIFIED)]
           /\ last' = Call("Write", <<>>, 0, len, r.bw, frOK, <<>>, <<>>)
    /\ nops' = nops + 1
    /\ UNCHANGED <<dev, bad, fuse, fs, dp, io, gfile, gh, gd>>
ClipSync(max) ==
    /\ Running(max)
    /\ fp.fs /\ Has(fp.flag, faMODIFIED)
    /\ fp' = [fp EXCEPT !.flag = BitClear(@, faMODIFIED)]
    /\ last' = Call("Sync", <<>>, 0, 0, 0, frOK, <<f_sync_size(fp.objsize)>>, <<>>)
    /\ nops' = nops + 1
    /\ UNCHANGED <<dev, bad, fuse, fs, dp, io, gfile, gh, gd>>
NextClip ==
    \/ ClipOpen(MaxClip)
    \/ ClipWrite(MaxClip)
    \/ ClipSync(MaxClip)

SpecClip == Init /\ [][NextClip]_vars

\* ----------------------------------------------------------------- claims
IsPrefix(a, b) == Len(a) <= Len(b) /\ SubSeq(b, 1, Len(a)) = a
\* the n bytes that the device holds from the start of sector lbaN
DevBytes(d, lbaN, n) ==
    [i \in 1..n |-> Get(DevGet(d, lbaN + (i - 1) \div SectorSize), (i - 1) % SectorSize)]
FileOps == {"Read", "Write", "Sync", "Close"}

\* C1: a file created with ModeCreateAlways|ModeWrite, written and closed with
\* nil reads back, through a handle opened with ModeRead and read from offset
\* 0, as exactly the bytes that were written: every Read returns the next
\* bytes of the data and EOF comes when all of them have been returned.
C1_ReadBackEqualsWritten ==
    (/\ last.op = "Read" /\ last.pre.valid /\ Has(last.pre.flag, faRead)
     /\ gh.seq /\ gh.path \in GPaths)
    => (gfile[gh.path].ok
        => /\ last.err \in {frOK, ioEOF}
           /\ IsPrefix(gh.acc, gfile[gh.path].data)
           /\ (last.err = ioEOF => gh.acc = gfile[gh.path].data))

\* C2: when Sync returns nil on a handle that held written data not yet
\* persisted, the directory entry of the file on the device records the
\* size and the start cluster of the handle, and the device holds the bytes
\* written (compared here for files of at most one cluster).
C2_SyncPersists ==
    (/\ last.op = "Sync" /\ last.err = frOK /\ last.pre.valid
     /\ Has(last.pre.flag, faMODIFIED) /\ gh.path \in GPaths
     /\ fp.objsize <= ClusterBytes)
    => LET ent == DevGet(dev, fp.dir_sect)
       IN  /\ GetU32(ent, fp.dir_ptr + dirFileSizeOff) = fp.objsize
           /\ ld_clust(fs, ent, fp.dir_ptr) = fp.sclust
           /\ DevBytes(dev, clst2sect(fs, fp.sclust), fp.objsize)
                 = SubSeq(gfile[gh.path].data, 1, fp.objsize)

\* C3: Read, Write, Sync and Close on a handle that Close has detached, or
\* that was never opened, return invalid-object, transfer nothing, issue no
\* device call and leave the handle detached.
C3_ClosedHandleInvalid ==
    (last.op \in FileOps /\ (last.pre.closed \/ last.pre.fresh))
    => /\ last.err = frInvalidObject
       /\ last.n = 0
       /\ io = <<>>
       /\ ~fp.fs

\* a second Close on a handle that Close has detached
C3_SecondClose ==
    last.op = "Close" /\ last.pre.closed /\ last.err = frInvalidObject

\* C4: Read, Write, Sync and Close on a File, and ForEachFile on a Dir, that
\* was opened before the last completed Mount return invalid-object and
\* issue no device call.
C4_StaleHandleInvalid ==
    (\/ last.op \in FileOps /\ last.pre.attached /\ last.pre.stale
     \/ last.op = "ForEachFile" /\ last.pre.dattached /\ last.pre.dstale)
    => last.err = frInvalidObject /\ io = <<>>

\* C5: a Read or Write on an open handle whose error field holds the code of
\* an earlier abort returns that code and transfers 0 bytes.
C5_ErrorLatched ==
    (last.op \in {"Read", "Write"} /\ last.pre.valid /\ last.pre.ferr # frOK)
    => last.err = last.pre.ferr /\ last.n = 0

\* C6: Write on an open handle that has ModeWrite, with no error stored, on a
\* healthy device and a volume mounted for writing with free clusters left,
\* returns the length of the buffer and nil.
C6_WriteReturnsLen ==
    (/\ last.op = "Write" /\ last.pre.valid /\ Has(last.pre.flag, faWrite)
     /\ Has(last.pre.perm, ModeWrite) /\ last.pre.ferr = frOK /\ ~last.pre.bad)
    => last.n = last.len /\ last.err = frOK

\* C7: Read on an open readable file, on a healthy device, returns
\* n = min(len(buf), size - fptr) bytes, which are the content of the file at
\* [fptr, fptr + n), advances fptr by n, and returns nil, or EOF when n = 0.
C7_ReadContract ==
    (/\ last.op = "Read" /\ last.pre.valid /\ Has(last.pre.flag, faRead)
     /\ Has(last.pre.perm, ModeRead) /\ last.pre.ferr = frOK /\ ~last.pre.bad
     /\ gh.path \in GPaths)
    => LET n == Min(last.len, last.pre.objsize - last.pre.fptr)
       IN  /\ last.n = n
           /\ last.out = SubSeq(gfile[gh.path].data, last.pre.fptr + 1, last.pre.fptr + n)
           /\ fp.fptr = last.pre.fptr + n
           /\ last.err = IF n = 0 THEN ioEOF ELSE frOK

\* C8: Write on an open handle without write access transfers 0 bytes,
\* returns an error and changes neither the handle nor the device; Read on an
\* open handle without read access transfers 0 bytes and changes nothing.
C8_NoAccessNoTransfer ==
    [][nops' = nops + 1 /\ validate(fp, fs) = frOK
       => /\ (last'.op = "Write" /\ ~Has(fp.flag, faWrite))
             => /\ last'.n = 0 /\ last'.err # frOK
                /\ fp' = fp /\ dev' = dev /\ io' = <<>>
          /\ (last'.op = "Read" /\ ~Has(fp.flag, faRead))
             => /\ last'.n = 0
                /\ fp' = fp /\ dev' = dev /\ fs' = fs /\ io' = <<>>]_vars

\* a Write on an open handle that was opened without ModeWrite
C8_WriteOnReadHandle ==
    /\ last.op = "Write" /\ last.pre.valid /\ ~Has(last.pre.flag, faWrite)
    /\ last.err = frWriteProtected /\ last.n = 0

\* C9: OpenFile with a mode bit outside the allowed set returns invalid-mode;
\* with an allowed mode that asks for access the mount did not grant it
\* returns forbidden-mode; both leave the handle, the FS with its window and
\* the device as they were and issue no device call.
C9_ModeRejected ==
    [][nops' = nops + 1 /\ last'.op = "OpenFile"
       => LET invalid == BitClear(last'.mode, allowedModes) # 0
              prohibited == BitClear(BitAnd(last'.mode, ModeRW), fs.perm) # 0
          IN  /\ invalid => last'.err = errInvalidMode
              /\ (~invalid /\ prohibited) => last'.err = errForbiddenMode
              /\ (invalid \/ prohibited)
                 => fp' = fp /\ fs' = fs /\ dev' = dev /\ io' = <<>>]_vars

\* an OpenFile for writing on a volume mounted read-only
C9_ForbiddenOnReadOnlyMount ==
    /\ last.op = "OpenFile" /\ last.err = errForbiddenMode
    /\ last.pre.fstype = fstypeFAT32 /\ last.pre.perm = ModeRead
    /\ Has(last.mode, ModeWrite)

\* what the volume holds: the device, with the window sector written where
\* the window is dirty (as sync_window will write it)
Volume(d, f) ==
    IF f.wflag = 0 THEN d
    ELSE LET d1 == DevPut(d, f.winsect, f.win)
         IN  IF f.nFATs = 2 /\ Sub32(f.winsect, f.fatbase) < f.fsize
             THEN DevPut(d1, f.winsect + f.fsize, f.win)
             ELSE d1

\* an OpenFile step with an allowed and granted mode that has no create flag,
\* on a mounted volume
OpenExistingStep ==
    /\ nops' = nops + 1 /\ last'.op = "OpenFile"
    /\ fs.fstype = fstypeFAT32
    /\ BitClear(last'.mode, allowedModes) = 0
    /\ BitClear(BitAnd(last'.mode, ModeRW), fs.perm) = 0
    /\ BitAnd(last'.mode, CreateFlags) = 0

\* such a step has failed with the code fr, left the handle detached and
\* left the contents of the volume as they were
OpenFailed(fr) ==
    /\ last'.err = fr
    /\ ~fp'.fs
    /\ Volume(dev', fs') = Volume(dev, fs)

ImagePaths == {<<Name.rootfile>>, <<Name.rofile>>, <<Name.rootdir>>,
               <<Name.rootdir, Name.dirfile>>}
ImageEntry(path) ==
    IF path = <<Name.rootdir, Name.dirfile>> THEN SubdirEntries[3]
    ELSE CHOOSE e \in {RootEntries[i] : i \in 1..Len(RootEntries)} : e.name = path[1]

\* an OpenFile step with an allowed and granted mode on a mounted volume
OpenStep ==
    /\ nops' = nops + 1 /\ last'.op = "OpenFile"
    /\ fs.fstype = fstypeFAT32
    /\ BitClear(last'.mode, allowedModes) = 0
    /\ BitClear(BitAnd(last'.mode, ModeRW), fs.perm) = 0

\* such a step on an entry of the image with ModeCreateNew has failed: denied
\* for a directory or a read-only entry, exist otherwise
CreateNewFails ==
    (last'.path \in ImagePaths /\ Has(last'.mode, faCreateNew))
    => OpenFailed(IF BitAnd(ImageEntry(last'.path).attr, amRDO + amDIR) # 0
                  THEN frDenied ELSE frExist)

\* such a step has opened the entry e of the image as it is: nothing is
\* written, and the handle is at offset 0 of a file with the size and the
\* first cluster of the entry
OpenedAsIs(e) ==
    /\ last'.err = frOK
    /\ fp'.fs /\ fp'.objsize = e.size /\ fp'.sclust = e.clust /\ fp'.fptr = 0
    /\ Volume(dev', fs') = Volume(dev, fs)

OpenAlwaysOnly(mode) == Has(mode, faOpenAlways) /\ BitAnd(mode, CreateFlags) = faOpenAlways

\* C11: OpenFile with ModeCreateNew on a path that exists fails with exist, or
\* with denied on a directory or a read-only entry, and changes nothing on
\* the volume; OpenFile with ModeOpenAlways on a file that exists opens it
\* as it is, without truncating it.
C11_CreateOnExisting ==
    [][OpenStep
       => /\ CreateNewFails
          /\ (/\ last'.path \in ImagePaths /\ OpenAlwaysOnly(last'.mode)
              /\ ~Has(ImageEntry(last'.path).attr, amDIR))
             => OpenedAsIs(ImageEntry(last'.path))]_vars

\* the directories and the files of the image, by path
ImageDirs == {<<>>, <<Name.rootdir>>}
ImageFiles == {<<Name.rootfile>>, <<Name.rofile>>, <<Name.rootdir, Name.dirfile>>}
\* some component of the path before the last one is missing or is a file
BrokenWay(path) ==
    \E n \in 1..(Len(path) - 1) : SubSeq(path, 1, n) \notin ImageDirs

IsMirror(c, f) ==
    /\ c[1] = "write" /\ f.nFATs = 2
    /\ c[2] >= f.fatbase + f.fsize /\ c[2] < f.fatbase + 2 * f.fsize

\* C13: an API call during which a device read, write or erase failed, other
\* than the write of a FAT sector into the second FAT, returns disk-error.
C13_DeviceErrorReported ==
    [][(/\ nops' = nops + 1
        /\ \E i \in DOMAIN io' : ~io'[i][4] /\ ~IsMirror(io'[i], fs'))
       => last'.err = frDiskErr]_vars

\* C14: while the FS is unmounted after a Mount that returned an error, every
\* OpenFile and OpenDir fails and issues no device call.
C14_UnmountedAfterFailedMount ==
    [][(/\ nops' = nops + 1 /\ last'.op \in {"OpenFile", "OpenDir"}
        /\ fs.fstype = fstypeUnknown /\ fs.perm # 0)
       => last'.err # frOK /\ io' = <<>>]_vars

\* byte i (from 0) of the file of handle f, for a file of one cluster: from
\* the sector cache of the handle when it holds the sector, else from the
\* device
FileByte(d, fsys, f, i) ==
    LET sector == clst2sect(fsys, f.sclust) + i \div fsys.ssize
    IN  IF f.sect = sector THEN Get(f.buf, i % fsys.ssize)
        ELSE Get(DevGet(d, sector), i % fsys.ssize)

\* C15: on a healthy device, OpenFile with the append mode on a file of the
\* image (size n > 0, not written since) returns nil with the handle at
\* offset n of a file of size n, its current cluster the one that holds byte
\* n - 1, and the volume unchanged, whatever the cluster size; a Write of k
\* bytes on a handle so opened returns k and gives a file of size n + k
\* whose first n bytes are as before.
C15_AppendKeepsContent ==
    [][(nops' = nops + 1 /\ ~bad /\ fuse = NoFuse)
       => /\ (/\ OpenStep /\ last'.path \in ImageFiles
               /\ OpenAlwaysOnly(last'.mode) /\ Has(last'.mode, faSEEKEND)
               /\ ~Has(ImageEntry(last'.path).attr, amRDO)
               /\ Len(gfile[last'.path].data) = ImageEntry(last'.path).size)
             => LET e == ImageEntry(last'.path)
                IN  /\ last'.err = frOK /\ fp'.fs
                    /\ fp'.objsize = e.size /\ fp'.fptr = e.size
                    /\ fp'.clust = e.clust
                    /\ Volume(dev', fs') = Volume(dev, fs)
          /\ (/\ last'.op = "Write" /\ validate(fp, fs) = frOK /\ fp.err = frOK
               /\ Has(fp.flag, faSEEKEND) /\ Has(fp.flag, faWrite)
               /\ fp.fptr = fp.objsize /\ fp.objsize < fs.csize * fs.ssize)
             => /\ last'.n = last'.len /\ last'.err = frOK
                /\ fp'.objsize = fp.objsize + last'.len
                /\ \A i \in 0..(fp.objsize - 1) :
                      FileByte(dev', fs', fp', i) = FileByte(dev, fs, fp, i)]_vars

\* the string BASE.EXT that the 11 bytes fn of a directory entry stand for
ShortName(fn) ==
    LET nb  == CHOOSE k \in 0..8 : (\A j \in (k + 1)..8 : fn[j] = Ch.space)
                                   /\ (k > 0 => fn[k] # Ch.space)
        ne  == CHOOSE k \in 0..3 : (\A j \in (k + 1)..3 : fn[8 + j] = Ch.space)
                                   /\ (k > 0 => fn[8 + k] # Ch.space)
    IN  SubSeq(fn, 1, nb) \o (IF ne = 0 THEN <<>> ELSE <<Ch.dot>> \o SubSeq(fn, 9, 8 + ne))
\* whether the name n does not fit an 8.3 entry, and the first numbered
\* 8.3 name made for it
NeedsLong(n) == BitAnd(create_name(EmptySect, <<n>>).ns, nsLOSS) # 0
Numbered(n) ==
    LET cn == create_name(EmptySect, <<n>>)
    IN  ShortName(gen_numname(cn.fn, cn.lfn, 1).fn)

\* C16: after a file was created by OpenFile with a create flag and closed, a
\* ForEachFile over the root directory that returns nil reports exactly one
\* entry whose Name() is the name given at creation, and for a name that does
\* not fit 8.3 the AlternateName() of that entry is the numbered short name.
C16_ListedByName ==
    (last.op = "ForEachFile" /\ last.err = frOK)
    => \A p \in NamePaths :
         gfile[p].ok
         => LET hits == {i \in DOMAIN last.names : last.names[i].name = Utf8(p[1])}
            IN  /\ Cardinality(hits) = 1
                /\ NeedsLong(p[1]) => \A i \in hits : last.names[i].alt = Numbered(p[1])

\* the number of colliding names created so far
Collided == Cardinality({p \in CollidePaths : ~gfile[p].absent})
\* C17: on a read-write mount OpenFile with a create flag of a name that is
\* not in the directory and needs a numbered short name returns nil; the
\* first five names with the same 8.3 form get the suffixes ~1 to ~5 in
\* order, and the sixth is created too.
C17_NumberedCreationReturns ==
    [][(nops' = nops + 1 /\ last'.op = "OpenFile" /\ last'.path \in CollidePaths
        /\ gfile[last'.path].absent)
       => /\ last'.err = frOK
          /\ fs'.winsect = fp'.dir_sect
          /\ Collided < 5
             => Bytes(fs'.win, fp'.dir_ptr, 11)
                = gen_numname(Pad11(<<65, 66>>), EmptySect, Collided + 1).fn]_vars

\* the sector lbaN as the driver sees it
SectNow(lbaN) == IF fs.winsect = lbaN THEN fs.win ELSE DevGet(dev, lbaN)
\* the slots of the one-cluster directory that dp is open on: of each the
\* first byte of the name, the attributes and the size
Slots == 0..(ClusterSize * (SectorSize \div sizeDirEntry) - 1)
DirSlots ==
    LET base == clst2sect(fs, IF dp.sclust = 0 THEN fs.dirbase ELSE dp.sclust)
        secs == Mat([j \in 0..(ClusterSize - 1) |-> SectNow(base + j)])
    IN  Mat([i \in Slots |->
               LET sec == secs[(i * sizeDirEntry) \div SectorSize]
                   off == (i * sizeDirEntry) % SectorSize
               IN  [c    |-> Get(sec, off + dirNameOff),
                    attr |-> BitAnd(Get(sec, off + dirAttrOff), amMASK),
                    size |-> GetU32(sec, off + dirFileSizeOff)]])
\* the attributes and sizes of the slots of sl that hold a file or a
\* sub-directory, in directory order: the slots before the first free one
\* that are not deleted, no dot entry, no long-name slot and no volume label
ListedIn(sl) ==
    LET free == {i \in Slots : sl[i].c = 0}
        L    == {i \in Slots :
                   /\ \A j \in free : i < j
                   /\ sl[i].c \notin {mskDDEM, DotName}
                   /\ sl[i].attr # amLFN
                   /\ BitClear(sl[i].attr, amARC) # amVOL}
    IN  [k \in 1..Cardinality(L) |->
           LET i == CHOOSE x \in L : Cardinality({y \in L : y <= x}) = k
           IN  <<sl[i].attr, sl[i].size>>]
ListedInfo == ListedIn(DirSlots)
\* C18: ForEachFile on a valid Dir of a volume mounted for reading hands the
\* callback the entries of the files and sub-directories in directory order,
\* each once, and no deleted entry, volume label or long-name slot; when the
\* callback fails it stops and returns the callback's error, else it returns
\* nil; and a ForEachFile that follows another on the same Dir hands the
\* callback what the first did.
C18_ListsEveryEntryOnce ==
    (last.op = "ForEachFile" /\ last.pre.dvalid /\ Has(last.pre.perm, ModeRead))
    => LET exp   == ListedInfo
           fails == last.len \in 1..Len(exp)
           n     == IF fails THEN last.len ELSE Len(exp)
       IN  /\ last.err = IF fails THEN errCallback ELSE frOK
           /\ [k \in 1..Len(last.names) |-> <<last.names[k].attr, last.names[k].size>>]
              = SubSeq(exp, 1, n)
           /\ \A l \in {last.pre.listed[k] : k \in DOMAIN last.pre.listed} :
                 (l.failAt = last.len /\ l.err = last.err) => l.names = last.names

\* C19: a Write with fptr + len(buf) > 0xFFFFFFFF accepts 0xFFFFFFFF - fptr
\* bytes and any other Write all of len(buf); fptr and objsize never exceed
\* 0xFFFFFFFF; and the size that Sync stores in the directory entry is
\* objsize.
C19_ClippedAt4G ==
    fp.fs
    => /\ ~wideLess(wideMaxu32, fp.fptr)
       /\ ~wideLess(wideMaxu32, fp.objsize)
       /\ last.op = "Write"
          => last.n = IF wideLess(wideMaxu32, wideAdd(last.pre.fptr, last.len))
                      THEN wideSub(wideMaxu32, last.pre.fptr) ELSE last.len
       /\ last.op = "Sync" => last.out = <<fp.objsize>>

\* C20: every Mount that succeeds leaves FS.id, the mount generation, greater
\* than it was, so the generation never again has a value it had before.
C20_GenerationIncreases ==
    [][(nops' = nops + 1 /\ last'.op = "Mount" /\ last'.err = frOK)
       => fs'.id > fs.id]_vars

\* ------------------------------------------------- names that are refused
\* A run ends with the OpenFile under test: the volume is mounted, a file may
\* have been created and closed before.
MaxInvalid == 4
\* the characters that create_name refuses in a segment
BadChars == {Ch.star, Ch.colon, Ch.lt, Ch.gt, 124, Ch.dquote, Ch.quest, Ch.del}
\* a segment of n letters, and one of n runes that UTF-8 encodes in 3 bytes
Letters(n) == [i \in 1..n |-> 65 + (i % 26)]
Euros(n) == [i \in 1..n |-> 8364]
\* the UTF-16 code units of a segment
Units(seg) == Len(seg) + Cardinality({i \in 1..Len(seg) : seg[i] >= 65536})
\* the segments that the specification has refused
Refused(seg) ==
    \/ \E i \in 1..Len(seg) : seg[i] \in BadChars
    \/ \A i \in 1..Len(seg) : seg[i] \in {Ch.space, Ch.dot}
    \/ Units(seg) > lfnBufSize
BadSegs == {<<65, c, 66>> : c \in BadChars}
           \cup {<<Ch.dot>>, <<Ch.dot, Ch.dot>>, <<Ch.space, Ch.dot>>,
                 Letters(lfnBufSize + 1)}
InvalidPaths == {<<s>> : s \in BadSegs}
                \cup {<<Name.rootdir, <<65, Ch.star>>>>, <<<<Ch.quest, 66>>, Name.rootfile>>,
                      <<Name.rootdir, <<Ch.dot, Ch.dot>>>>}
ValidPaths == {<<Letters(lfnBufSize)>>, <<Euros(lfnBufSize)>>, <<Euros(lfnBufSize \div 2 + 1)>>,
               <<Name.rootdir, Letters(lfnBufSize)>>, <<Name.newfile>>}
NextInvalid ==
    \/ fs.fstype = 0 /\ CallMount(MaxInvalid - 1, {SectorSize}, {ModeRW})
    \/ CallOpenFile(MaxInvalid - 1, {<<Name.newfile>>}, {faCreateNew + ModeWrite})
    \/ CallClose(MaxInvalid - 1)
    \/ nops = MaxInvalid - 1
       /\ CallOpenFile(MaxInvalid, InvalidPaths \cup ValidPaths,
                       {ModeRead, faCreateNew + ModeWrite})

SpecInvalid == Init /\ [][NextInvalid]_vars

\* C21: on a mounted volume, OpenFile of a path with a segment that holds one
\* of * : < > | " ? DEL, that is empty once its trailing spaces and dots are
\* dropped, or that is longer than 255 UTF-16 code units fails with
\* frInvalidName and leaves the device as it was; a path whose segments are
\* all of 255 code units or fewer and none of the above is not refused as an
\* invalid name.
C21_InvalidName ==
    [][(nops' = nops + 1 /\ last'.op = "OpenFile" /\ fs.fstype # 0)
       => /\ (\E i \in 1..Len(last'.path) : Refused(last'.path[i]))
             => (last'.err = frInvalidName /\ dev' = dev)
          /\ (\A i \in 1..Len(last'.path) : ~Refused(last'.path[i]))
             => last'.err # frInvalidName]_vars

\* ------------------------------------------------------ the FAT, read back
\* The volume as it would be after the window is flushed: sector lbaN is
\* SectNow(lbaN).  FatEntry is the 28-bit FAT entry of cluster c at the place
\* the FAT32 layout gives it.
FatEntry(c) ==
    Get(SectNow(fs.fatbase + (4 * c) \div fs.ssize), (4 * c) % fs.ssize)
IsEOC(v) == v >= 268435448
RECURSIVE ChainFrom(_, _)
\* the clusters of the chain that starts at c, after those of seen; ok says
\* that it stays in 2..n_fatent-1, meets no cluster twice and ends at an
\* end-of-chain mark
ChainFrom(c, seen) ==
    IF IsEOC(c) THEN [ok |-> TRUE, clusters |-> seen]
    ELSE IF c < 2 \/ c >= fs.n_fatent \/ c \in seen THEN [ok |-> FALSE, clusters |-> seen]
    ELSE ChainFrom(FatEntry(c), seen \cup {c})
\* the start clusters that the entries of the directory in cluster dir name
StartsIn(dir) ==
    LET ent(i) == [sec |-> SectNow(clst2sect(fs, dir) + (i * sizeDirEntry) \div fs.ssize),
                   off |-> (i * sizeDirEntry) % fs.ssize]
        used == {i \in Slots : LET e == ent(i)
                               IN  /\ Get(e.sec, e.off) \notin {0, mskDDEM, DotName}
                                   /\ Get(e.sec, e.off + dirAttrOff) # amLFN}
    IN  {ld_clust(fs, ent(i).sec, ent(i).off) : i \in used} \ {0}
\* the root directory, the directory ROOTDIR and every file that the two hold
FileStarts == {2} \cup StartsIn(2) \cup StartsIn(3)

\* C22: after an OpenFile, a Write, a Sync or a Close on a mounted volume the
\* FAT chain of every file stays within clusters 2..n_fatent-1, meets no
\* cluster twice, ends at an end-of-chain mark, and shares no cluster with
\* the chain of another file.
C22_ChainsWellFormed ==
    (fs.fstype = fstypeFAT32 /\ last.op \in {"OpenFile", "Write", "Sync", "Close"})
    => /\ \A c \in FileStarts : ChainFrom(c, {}).ok
       /\ \A c, d \in FileStarts :
            c # d => ChainFrom(c, {}).clusters \cap ChainFrom(d, {}).clusters = {}

\* ------------------------------------------------------- the FAT accessors
\* clusterstat and put_clusterstat are applied to clusters at both ends of
\* the FAT, next to sector boundaries and in the middle, with values of
\* every kind.
MaxFat == 3
FatClusters == {2, 6, 127, 128, 129, 1030, 7849969}
FatValues == {0, 7, 1030, mask28bits, 268435456 + 5, maxu32}
CallClusterstat(max, clusters) ==
    /\ Running(max)
    /\ fs.fstype # 0
    /\ \E clst \in clusters :
         \E r \in {invoke("clusterstat", <<M0, clst>>)} :
             Done(r.m, Call("clusterstat", <<>>, 0, clst, r.val, frOK, <<>>, <<>>))
    /\ UNCHANGED <<fp, dp, gfile, gh, gd>>
CallPutClusterstat(max, clusters, values) ==
    /\ Running(max)
    /\ fs.fstype # 0
    /\ \E cluster \in clusters, value \in values :
         \E r \in {invoke("put_clusterstat", <<M0, cluster, value>>)} :
             Done(r.m, Call("put_clusterstat", <<>>, 0, cluster, value, r.fr, <<>>, <<>>))
    /\ UNCHANGED <<fp, dp, gfile, gh, gd>>
NextFat ==
    \/ CallMount(MaxFat, {SectorSize}, {ModeRW})
    \/ CallClusterstat(MaxFat, FatClusters)
    \/ CallPutClusterstat(MaxFat, FatClusters, FatValues)

SpecFat == Init /\ [][NextFat]_vars

\* the sector and the offset of the FAT entry of cluster c in the FAT32 layout
FatSect(c) == fs.fatbase + (4 * c) \div fs.ssize
FatOff(c) == (4 * c) % fs.ssize
\* sector l of the volume made of the device d and the window of f
SectIn(d, f, l) == IF f.winsect = l THEN f.win ELSE DevGet(d, l)
\* the sectors of the FAT that the device d or the window of f holds
FatSectorsIn(d, f) ==
    {l \in DOMAIN d \cup {f.winsect} : l >= f.fatbase /\ l < f.fatbase + f.fsize}

\* C23: after put_clusterstat(c, v) returns OK for a cluster c of
\* 2..n_fatent-1, clusterstat(c) returns the 28 low bits of v, the 4 high bits
\* of the entry are what they were, no other FAT entry has changed and the
\* window is dirty.
C23_PutThenGet ==
    [][(nops' = nops + 1 /\ last'.op = "put_clusterstat" /\ last'.err = frOK
        /\ last'.len >= 2 /\ last'.len < fs.n_fatent)
       => LET c == last'.len
          IN  /\ clusterstat([dev |-> dev', fs |-> fs', io |-> <<>>, bad |-> bad',
                              fuse |-> fuse'], c).val = Lo28(last'.n)
              /\ Get(SectIn(dev', fs', FatSect(c)), FatOff(c) + 3)
                 = Get(SectIn(dev, fs, FatSect(c)), FatOff(c) + 3)
              /\ \A l \in FatSectorsIn(dev, fs) \cup FatSectorsIn(dev', fs') :
                   \A off \in 0..(fs.ssize - 1) :
                     (l # FatSect(c) \/ off \notin FatOff(c)..(FatOff(c) + 3))
                     => Get(SectIn(dev', fs', l), off) = Get(SectIn(dev, fs, l), off)
              /\ fs'.wflag = 1]_vars

\* the FAT entry of cluster c, 28 bits, on the volume made of d and the
\* window of f
FatEntryIn(d, f, c) ==
    Get(SectIn(d, f, f.fatbase + (4 * c) \div f.ssize), (4 * c) % f.ssize)
\* the cells of the FAT, as <<sector, offset>>, that differ between the
\* volume before and after the step
FatChanged ==
    {x \in (FatSectorsIn(dev, fs) \cup FatSectorsIn(dev', fs')) \X (0..(fs.ssize - 1)) :
        Get(SectIn(dev', fs', x[1]), x[2]) # Get(SectIn(dev, fs, x[1]), x[2])}

\* C24: clusterstat(c) and put_clusterstat(c, v) work on the same place of the
\* FAT, bytes (4c mod ssize)..+3 of sector fatbase + (4c div ssize): the window
\* is left on that sector, clusterstat returns the entry stored there and
\* put_clusterstat changes no byte elsewhere, so that two clusters never
\* share a place.
C24_SameLocation ==
    [][(nops' = nops + 1 /\ last'.op \in {"clusterstat", "put_clusterstat"}
        /\ last'.len >= 2 /\ last'.len < fs.n_fatent)
       => LET c == last'.len
          IN  /\ fs'.winsect = FatSect(c)
              /\ last'.op = "clusterstat" => last'.n = FatEntryIn(dev, fs, c)
              /\ last'.op = "put_clusterstat"
                 => FatChanged \subseteq {FatSect(c)} \X (FatOff(c)..(FatOff(c) + 3))]_vars

\* C25: on a mounted volume the window is dirty, or its sector number is the
\* invalid sentinel, or its buffer holds what the device holds in that
\* sector; also after dir_clear, after FS.sync has rewritten FSInfo and after
\* a device call has failed.
C25_WindowCoherent ==
    fs.fstype # 0
    => \/ fs.wflag = 1
       \/ fs.winsect = badLBA
       \/ fs.win = DevGet(dev, fs.winsect)

\* ------------------------------------------------------------ allocation
\* create_chain is applied to volumes that differ in the hint and the free
\* count of FSInfo and in whether a file holds cluster 134, for a new chain
\* and for the tails of the chains on the volume.
MaxAlloc == 3
NFatEnt == (TotSec32 - DataBase) \div ClusterSize + 2
AllocHints == {5, 133, NFatEnt - 1, maxu32}
AllocFree == {0, NFatEnt - 6}
AllocClusters == {0, 2, 5, 6, 134}
\* the formatted volume with the FSInfo fields hint and free; when used,
\* cluster 134 is a chain of one cluster
ImageAlloc(hint, free, used) ==
    LET fsi == PutU32(PutU32(FSInfoSector, fsiFree_Count, free), fsiNxt_Free, hint)
        fat == PutU32(EmptySect, 4 * (134 - SectorSize \div 4), mask28bits)
        d1  == DevPut(Image, 1, fsi)
    IN  IF used
        THEN DevPut(DevPut(d1, RsvdSecCnt + 1, fat), RsvdSecCnt + FATSz32 + 1, fat)
        ELSE d1
InitAlloc ==
    \E hint \in AllocHints, free \in AllocFree, used \in BOOLEAN :
        InitOn(ImageAlloc(hint, free, used), RootFileData)
CallCreateChain(max, clusters) ==
    /\ Running(max)
    /\ fs.fstype # 0
    /\ \E clst \in clusters :
         \E r \in {invoke("create_chain", <<M0, clst>>)} :
             Done(r.m, Call("create_chain", <<>>, 0, clst, r.val, frOK, <<>>, <<>>))
    /\ UNCHANGED <<fp, dp, gfile, gh, gd>>
NextAlloc ==
    \/ CallMount(MaxAlloc, {SectorSize}, {ModeRW})
    \/ CallCreateChain(MaxAlloc, AllocClusters)

SpecAlloc == InitAlloc /\ [][NextAlloc]_vars

\* C26: create_chain called for a new chain, or for the tail of a chain,
\* returns 0 when free_clst is 0, and a cluster that it returns had the FAT
\* entry 0 before the call, so that no cluster of a chain is handed out.
C26_AllocateFree ==
    [][(nops' = nops + 1 /\ last'.op = "create_chain")
       => LET clst == last'.len
              v    == last'.n
          IN  (clst = 0 \/ (clst >= 2 /\ clst < fs.n_fatent
                            /\ FatEntryIn(dev, fs, clst) >= fs.n_fatent))
              => /\ fs.free_clst = 0 => v = 0
                 /\ (v >= 2 /\ v < fs.n_fatent)
                    => /\ FatEntryIn(dev, fs, v) = 0
                       /\ fs.free_clst # 0]_vars

\* ------------------------------------------------- writes across clusters
\* A new file is written with lengths below, at and above the size of a
\* cluster.
MaxCross == 4
CrossLens == {1, ClusterBytes - 1, ClusterBytes, ClusterBytes + 1, 2 * ClusterBytes}
NextCross ==
    \/ CallMount(MaxCross, {SectorSize}, {ModeRW})
    \/ CallOpenFile(MaxCross, {<<Name.newfile>>}, {ModeCreateAlways + ModeWrite})
    \/ CallWrite(MaxCross, CrossLens)

SpecCross == Init /\ [][NextCross]_vars

RECURSIVE ChainIn(_, _, _, _)
\* ChainFrom on the volume made of the device d and the window of f; a
\* start cluster of 0 is the empty chain
ChainIn(d, f, c, seen) ==
    IF IsEOC(c) \/ (c = 0 /\ seen = {}) THEN [ok |-> TRUE, clusters |-> seen]
    ELSE IF c < 2 \/ c >= f.n_fatent \/ c \in seen THEN [ok |-> FALSE, clusters |-> seen]
    ELSE ChainIn(d, f, FatEntryIn(d, f, c), seen \cup {c})

\* C27: a Write through a valid handle open for writing leaves the chain of
\* the file well formed with exactly ceil(size / bytes per cluster) clusters:
\* the clusters it had before and, for every cluster boundary crossed, one
\* cluster whose FAT entry was 0 before the call.
C27_WriteAllocates ==
    [][(nops' = nops + 1 /\ last'.op = "Write"
        /\ validate(fp, fs) = frOK /\ fp.err = frOK /\ Has(fp.flag, faWrite))
       => LET bpc == fs.csize * fs.ssize
              old == ChainIn(dev, fs, fp.sclust, {})
              new == ChainIn(dev', fs', fp'.sclust, {})
          IN  /\ new.ok
              /\ Cardinality(new.clusters) = (fp'.objsize + bpc - 1) \div bpc
              /\ old.clusters \subseteq new.clusters
              /\ \A c \in new.clusters \ old.clusters : FatEntryIn(dev, fs, c) = 0]_vars

\* ------------------------------------------------------- full directories
\* The root directory of the volume fills its one cluster, so that a file
\* created in it needs a second cluster.
MaxStretch == 5
FillEntries ==
    [i \in 1..(ClusterSize * (SectorSize \div sizeDirEntry) - Len(RootEntries)) |->
        [name |-> <<70, 65 + (i % 26), 65 + (i \div 26)>>, attr |-> amARC,
         clust |-> 0, size |-> 0]]
\* sector j of a directory table holding the entries ents, built slot by
\* slot
DirSectorOf(ents, j) ==
    LET per == SectorSize \div sizeDirEntry
        slot(i) == EntryAt(EmptySect, i * sizeDirEntry, ents[j * per + i + 1])
        here == {i \in 0..(per - 1) : j * per + i + 1 <= Len(ents)}
    IN  [k \in UNION {DOMAIN slot(i) : i \in here} |-> slot(k \div sizeDirEntry)[k]]
ImageFull ==
    DevPutN(Image, DataBase,
            [j \in 1..ClusterSize |-> DirSectorOf(RootEntries \o FillEntries, j - 1)], 1)
InitFull == InitOn(ImageFull, RootFileData)
NextStretch ==
    \/ CallMount(MaxStretch, {SectorSize}, {ModeRW})
    \/ CallOpenFile(MaxStretch, {<<Name.newfile>>, <<Name.plain>>},
                    {ModeRead, faCreateNew + ModeWrite, ModeCreateAlways + ModeWrite})
    \/ CallClose(MaxStretch)

SpecStretch == InitFull /\ [][NextStretch]_vars

\* the cluster that holds sector l of the data area
SectCluster(f, l) == 2 + (l - f.database) \div f.csize

\* C28: a file created in a full directory has its entry in a cluster of the
\* directory's own chain, and an OpenFile for reading that follows the
\* creation finds it.
C28_StretchLinked ==
    [][(nops' = nops + 1
        /\ last.op = "OpenFile" /\ last.err = frOK /\ BitAnd(last.mode, CreateFlags) # 0
        /\ SectCluster(fs, fp.dir_sect) # fs.dirbase
        /\ last'.op = "OpenFile" /\ last'.path = last.path /\ last'.mode = ModeRead)
       => /\ SectCluster(fs, fp.dir_sect) \in ChainIn(dev, fs, fs.dirbase, {}).clusters
          /\ last'.err = frOK]_vars

\* --------------------------------------------------- directories with holes
\* Files with names of one, two and three entries are created in a root
\* directory with runs of one and two deleted entries before its end, in a
\* full directory, and in a full directory on a volume without a free
\* cluster.
MaxHoles == 4
Deleted(c) == [name |-> <<mskDDEM, c>>, attr |-> amARC, clust |-> 0, size |-> 0]
HoleEntries ==
    <<Deleted(65)>> \o RootEntries \o <<Deleted(66), Deleted(67)>>
    \o << [name |-> <<70, 49>>, attr |-> amARC, clust |-> 0, size |-> 0] >>
ImageHoles ==
    DevPutN(Image, DataBase,
            [j \in 1..ClusterSize |-> DirSector(HoleEntries, j - 1, 1)], 1)
ImageFullNoFree == DevPut(ImageFull, 1, PutU32(FSInfoSector, fsiFree_Count, 0))
HolePaths == {<<Name.plain>>, <<Spaced(1)>>, <<Name.long>>}
\* the full directory without its last entry
ImageAlmostFull ==
    DevPutN(Image, DataBase,
            [j \in 1..ClusterSize |->
                DirSectorOf(RootEntries \o SubSeq(FillEntries, 1, Len(FillEntries) - 1),
                            j - 1)], 1)
InitHoles ==
    \E image \in {ImageHoles, ImageFull, ImageFullNoFree, ImageAlmostFull} :
        InitOn(image, RootFileData)
NextHoles ==
    \/ CallMount(MaxHoles, {SectorSize}, {ModeRW})
    \/ CallOpenFile(MaxHoles, HolePaths, {faCreateNew + ModeWrite})
    \/ CallClose(MaxHoles)

SpecHoles == InitHoles /\ [][NextHoles]_vars

\* the sectors of the data area that the device d or the window of f holds
DataSectorsIn(d, f) == {l \in DOMAIN d \cup {f.winsect} : l >= f.database /\ l # badLBA}
\* the directory slots, as <<sector, index in the sector>>, whose 32 bytes
\* differ between the volume before and after the step
SlotsChanged ==
    {x \in (DataSectorsIn(dev, fs) \cup DataSectorsIn(dev', fs'))
           \X (0..(fs.ssize \div sizeDirEntry - 1)) :
        Bytes(SectIn(dev', fs', x[1]), x[2] * sizeDirEntry, sizeDirEntry)
        # Bytes(SectIn(dev, fs, x[1]), x[2] * sizeDirEntry, sizeDirEntry)}
\* the number of the slot x, counted from the start of the device
SlotPos(x) == x[1] * (fs.ssize \div sizeDirEntry) + x[2]

\* no slot of the directory cluster c is free
DirFull(d, f, c) ==
    \A i \in 0..(f.csize * (f.ssize \div sizeDirEntry) - 1) :
        Get(SectIn(d, f, clst2sect(f, c) + (i * sizeDirEntry) \div f.ssize),
            (i * sizeDirEntry) % f.ssize) \notin {0, mskDDEM}

\* C29: when OpenFile creates a file that the directory does not hold, the
\* slots that register writes are slots that were free (first byte 0x00 or
\* 0xE5) before the call; on success they are consecutive slots of which the
\* last is the one alloc left the walker on, the short entry of the file;
\* when alloc returns denied, no slot has changed, and it returns denied when
\* the directory is full and the volume has no free cluster.
\* Witness: the name of three entries is stored in the three slots at the
\* end of the directory with holes, after the runs of one and two deleted
\* entries.
C29_LongNameAfterHoles ==
    /\ last.op = "OpenFile" /\ last.err = frOK /\ last.path = <<Name.long>>
    /\ fp.dir_sect = DataBase /\ fp.dir_ptr = (Len(HoleEntries) + 2) * sizeDirEntry
C29_AllocFreeSlots ==
    [][(nops' = nops + 1 /\ last'.op = "OpenFile" /\ fs.fstype # 0
        /\ last'.path \in GPaths /\ gfile[last'.path].absent
        /\ BitAnd(last'.mode, CreateFlags) # 0)
       => LET ch  == SlotsChanged
              end == SlotPos(<<fp'.dir_sect, fp'.dir_ptr \div sizeDirEntry>>)
          IN  /\ \A x \in ch :
                   Get(SectIn(dev, fs, x[1]), x[2] * sizeDirEntry) \in {0, mskDDEM}
              /\ last'.err = frOK
                 => /\ ch # {}
                    /\ {SlotPos(x) : x \in ch} = (end - Cardinality(ch) + 1)..end
              /\ last'.err = frDenied => ch = {}
              /\ (fs.free_clst = 0 /\ DirFull(dev, fs, fs.dirbase))
                 => last'.err = frDenied]_vars

\* ------------------------------------------------- chains of two clusters
\* The volume holds the file TWO in clusters 7 and 8 and a chain of clusters
\* 134 and 135; create_chain is applied to the clusters of both chains and a
\* handle on TWO is written across the boundary of its clusters.
MaxLink == 4
TwoName == <<84, 87, 79>>
LinkClusters == {5, 7, 8, 134, 135}
ImageChain ==
    LET per  == SectorSize \div 4
        fat0 == PutU32(PutU32(FATSector, 4 * 7, 8), 4 * 8, mask28bits)
        fat1 == PutU32(PutU32(EmptySect, 4 * (134 - per), 135), 4 * (135 - per), mask28bits)
        ents == RootEntries \o << [name |-> TwoName, attr |-> amARC, clust |-> 7,
                                   size |-> 2 * ClusterBytes] >>
        d1   == DevPutN(Image, RsvdSecCnt, <<fat0, fat1>>, 1)
        d2   == DevPutN(d1, RsvdSecCnt + FATSz32, <<fat0, fat1>>, 1)
    IN  DevPutN(d2, DataBase, [j \in 1..ClusterSize |-> DirSectorOf(ents, j - 1)], 1)
InitLink ==
    \E free \in AllocFree :
        InitOn(DevPut(ImageChain, 1, PutU32(FSInfoSector, fsiFree_Count, free)),
               RootFileData)
NextLink ==
    \/ CallMount(MaxLink, {SectorSize}, {ModeRW})
    \/ CallCreateChain(MaxLink, LinkClusters)
    \/ CallOpenFile(MaxLink, {<<TwoName>>}, {ModeRW})
    \/ CallWrite(MaxLink, {ClusterBytes + 1})

SpecLink == InitLink /\ [][NextLink]_vars

\* C30: create_chain(prev) called when the FAT entry of prev holds a valid
\* next cluster returns that cluster and changes no FAT entry, nor last_clst,
\* free_clst or fsi_flag, and a Write that stays inside the clusters of the
\* file changes none of them either; called for a tail whose neighbour
\* prev + 1 is free, on a volume with a free cluster, it returns prev + 1.
C30_NextReturned ==
    [][/\ (nops' = nops + 1 /\ last'.op = "create_chain"
           /\ last'.len >= 2 /\ last'.len < fs.n_fatent)
          => LET prev == last'.len
                 e    == FatEntryIn(dev, fs, prev)
             IN  /\ (e >= 2 /\ e < fs.n_fatent)
                    => /\ last'.n = e
                       /\ FatChanged = {}
                       /\ fs'.last_clst = fs.last_clst
                       /\ fs'.free_clst = fs.free_clst
                       /\ fs'.fsi_flag = fs.fsi_flag
                 /\ (e >= fs.n_fatent /\ prev + 1 < fs.n_fatent
                     /\ FatEntryIn(dev, fs, prev + 1) = 0 /\ fs.free_clst # 0)
                    => last'.n = prev + 1
       /\ (nops' = nops + 1 /\ last'.op = "Write" /\ last'.err = frOK
           /\ fp'.fptr <= fp.objsize)
          => /\ FatChanged = {}
             /\ fs'.last_clst = fs.last_clst
             /\ fs'.free_clst = fs.free_clst
             /\ fs'.fsi_flag = fs.fsi_flag]_vars

\* ------------------------------------------------------- freeing chains
\* Besides the chains of ImageChain the volume holds a chain that runs into
\* a free cluster (10 -> 11, 11 free), a cyclic chain (12 -> 13 -> 12) and a
\* cluster whose entry is 1 (14); FSInfo gives a free count of 0, a count
\* that fits the volume, or one above the number of clusters.  Chains are
\* allocated and removed, on a device that may fail.
MaxChain == 3
ChainClusters == {7, 8, 10, 12, 14}
ChainFree == {0, NFatEnt - 16, NFatEnt}
ImageLoops ==
    LET fat == PutU32(PutU32(PutU32(PutU32(DevGet(ImageChain, RsvdSecCnt),
                   4 * 10, 11), 4 * 12, 13), 4 * 13, 12), 4 * 14, 1)
    IN  DevPut(DevPut(ImageChain, RsvdSecCnt, fat), RsvdSecCnt + FATSz32, fat)
InitChain ==
    \E free \in ChainFree :
        InitOn(DevPut(ImageLoops, 1, PutU32(FSInfoSector, fsiFree_Count, free)),
               RootFileData)
CallRemoveChain(max, clusters, prevs) ==
    /\ Running(max)
    /\ fs.fstype # 0
    /\ \E clst \in clusters, pclst \in prevs :
         \E r \in {invoke("remove_chain", <<M0, clst, pclst>>)} :
             Done(r.m, Call("remove_chain", <<>>, 0, clst, pclst, r.fr, <<>>, <<>>))
    /\ UNCHANGED <<fp, dp, gfile, gh, gd>>
\* create_chain(0) followed by remove_chain on the cluster it returned
CallCreateRemove(max) ==
    /\ Running(max)
    /\ fs.fstype # 0
    /\ \E c \in {invoke("create_chain", <<M0, 0>>)} :
         \E r \in {IF c.val >= 2 /\ c.val < fs.n_fatent
                   THEN invoke("remove_chain", <<c.m, c.val, 0>>)
                   ELSE [m |-> c.m, fr |-> frOK]} :
             Done(r.m, Call("create_remove", <<>>, 0, c.val, 0, r.fr, <<>>, <<>>))
    /\ UNCHANGED <<fp, dp, gfile, gh, gd>>
NextChain ==
    \/ CallMount(MaxChain, {SectorSize}, {ModeRW})
    \/ CallCreateChain(MaxChain, {0, 8})
    \/ CallRemoveChain(MaxChain, ChainClusters, {0, 7})
    \/ CallCreateRemove(MaxChain)
    \/ SetDevice(MaxChain)

SpecChain == InitChain /\ [][NextChain]_vars

\* C31: create_chain for a new chain followed by remove_chain on the cluster
\* it returned succeeds and leaves free_clst and every byte of the FAT as
\* they were before the allocation.
C31_AllocateThenRemove ==
    [][(nops' = nops + 1 /\ last'.op = "create_remove"
        /\ last'.len >= 2 /\ last'.len < fs.n_fatent)
       => /\ last'.err = frOK
          /\ fs'.free_clst = fs.free_clst
          /\ FatChanged = {}]_vars

RECURSIVE RemoveWalk(_, _, _, _)
\* what removing the chain from cluster c on the volume made of d and the
\* window of f is to do, the clusters of freed being free already: the
\* result and the clusters that become free
RemoveWalk(d, f, c, freed) ==
    LET nxt == IF c \in freed THEN 0 ELSE FatEntryIn(d, f, c)
    IN  IF nxt < 2 THEN [fr |-> frIntErr, freed |-> freed]
        ELSE IF nxt >= f.n_fatent THEN [fr |-> frOK, freed |-> freed \cup {c}]
        ELSE RemoveWalk(d, f, nxt, freed \cup {c})
\* the cells of the FAT entries of the clusters cs, as <<sector, offset>>
FatCells(f, cs) ==
    UNION {{f.fatbase + (4 * c) \div f.ssize}
              \X (((4 * c) % f.ssize)..(((4 * c) % f.ssize) + 3)) : c \in cs}

\* C32: remove_chain(clst, 0) that meets a next value of 0 while walking
\* stops with the internal error, on a failed device read it returns the
\* disk error, and at a next value of n_fatent or more it frees the cluster
\* and returns OK; it frees the clusters walked and no other, also on a
\* cyclic chain.
C32_RemoveStops ==
    [][(nops' = nops + 1 /\ last'.op = "remove_chain" /\ last'.n = 0
        /\ last'.len >= 2 /\ last'.len < fs.n_fatent)
       => LET w == RemoveWalk(dev, fs, last'.len, {})
          IN  IF \E i \in 1..Len(io') : ~io'[i][4]
              THEN last'.err = frDiskErr
              ELSE /\ last'.err = w.fr
                   /\ FatChanged \subseteq FatCells(fs, w.freed)
                   /\ \A c \in w.freed : FatEntryIn(dev', fs', c) = 0]_vars

\* ------------------------------------------------------------ truncation
\* ROOTFILE, which holds cluster 4 on the image, is opened with
\* CREATE_ALWAYS and written.
MaxTrunc == 5
NextTrunc ==
    \/ CallMount(MaxTrunc, {SectorSize}, {ModeRW})
    \/ CallOpenFile(MaxTrunc, {<<Name.rootfile>>}, {ModeRW, ModeCreateAlways + ModeWrite})
    \/ CallWrite(MaxTrunc, {1, ClusterBytes})
    \/ CallClose(MaxTrunc)

SpecTrunc == Init /\ [][NextTrunc]_vars

\* the start cluster of ROOTFILE on the image
RootFileClust == RootEntries[1].clust

\* C33: OpenFile with CREATE_ALWAYS on ROOTFILE while it holds its chain
\* succeeds, frees every cluster of the chain, sets the size to 0 and
\* last_clst to the start cluster - 1; the Write that follows allocates the
\* start cluster again: the file starts there and the FAT entry of the
\* cluster is in use.
C33_TruncateReuses ==
    [][/\ (nops' = nops + 1 /\ last'.op = "OpenFile" /\ fs.fstype # 0
           /\ Has(last'.mode, faCreateAlways)
           /\ FatEntryIn(dev, fs, RootFileClust) # 0)
          => /\ last'.err = frOK
             /\ \A c \in ChainIn(dev, fs, RootFileClust, {}).clusters :
                  FatEntryIn(dev', fs', c) = 0
             /\ fp'.objsize = 0
             /\ fs'.last_clst = RootFileClust - 1
       /\ (nops' = nops + 1 /\ last.op = "OpenFile" /\ last.err = frOK
           /\ Has(last.mode, faCreateAlways) /\ last'.op = "Write")
          => /\ last'.err = frOK
             /\ fp'.sclust = RootFileClust
             /\ FatEntryIn(dev', fs', RootFileClust) # 0]_vars

\* ------------------------------------------------------ the two FAT copies
\* every sector of either FAT copy that the device d holds equals its
\* counterpart in the other copy, for the geometry of f
FatMirrored(d, f) ==
    \A l \in {x \in DOMAIN d : x >= f.fatbase /\ x < f.fatbase + 2 * f.fsize} :
        DevGet(d, l) = DevGet(d, IF l < f.fatbase + f.fsize THEN l + f.fsize ELSE l - f.fsize)
\* entry i of the device log is a write of one sector of the first FAT
FirstFatWrite(log, f, i) ==
    /\ log[i][1] = "write" /\ log[i][4]
    /\ log[i][2] >= f.fatbase /\ log[i][2] < f.fatbase + f.fsize

SectorKind(f, s) ==
    IF s >= f.fatbase /\ s < f.database THEN 2
    ELSE IF s >= f.database /\ SectCluster(f, s) # f.dirbase THEN 1
    ELSE 3

\* C35: within one OpenFile, Write, Sync or Close that returns no error the
\* device writes come in the order file data sectors, FAT sectors, then
\* directory-entry sector and FSInfo sector: no write of a later kind comes
\* before a write of an earlier kind.
C35_WriteOrder ==
    [][(nops' = nops + 1 /\ fs'.fstype # 0 /\ last'.err = frOK
        /\ last'.op \in {"OpenFile", "Write", "Sync", "Close"})
       => \A i, j \in 1..Len(io') :
            (i < j /\ io'[i][1] # "read" /\ io'[j][1] # "read")
            => SectorKind(fs', io'[i][2]) <= SectorKind(fs', io'[j][2])]_vars

\* ------------------------------------------------------ read-only volumes
\* The volume is mounted with ModeRead only; files are opened with modes that
\* do not ask for ModeWrite, the create flags among them, and are read,
\* written, synced and closed; directories are opened and listed.
MaxReadOnly == 5
ReadOnlyPaths == {<<Name.rootfile>>, <<Name.newfile>>, <<Name.rootdir, Name.dirfile>>}
ReadOnlyModes == {ModeRead, faCreateNew + ModeRead, ModeCreateAlways + ModeRead}
NextReadOnly ==
    \/ CallMount(MaxReadOnly, {SectorSize}, {ModeRead})
    \/ CallOpenFile(MaxReadOnly, ReadOnlyPaths, ReadOnlyModes)
    \/ CallRead(MaxReadOnly, {1})
    \/ CallWrite(MaxReadOnly, {1})
    \/ CallSync(MaxReadOnly)
    \/ CallClose(MaxReadOnly)
    \/ CallOpenDir(MaxReadOnly, {<<>>})
    \/ CallForEachFile(MaxReadOnly, {0})

SpecReadOnly == Init /\ [][NextReadOnly]_vars

\* C36: on a volume mounted with ModeRead only no call issues a device write
\* or erase or leaves the window dirty, and OpenFile with ModeRead of a file
\* that exists on the device succeeds.
C36_ReadOnlyUntouched ==
    [][(nops' = nops + 1 /\ fs'.fstype # 0 /\ fs'.perm = ModeRead)
       => /\ \A i \in 1..Len(io') : io'[i][1] = "read"
          /\ dev' = dev
          /\ fs'.wflag = 0
          /\ (last'.op = "OpenFile" /\ last'.mode = ModeRead
              /\ last'.path \in {<<Name.rootfile>>, <<Name.rootdir, Name.dirfile>>})
             => last'.err = frOK]_vars

\* ------------------------------------------------------- the free count
\* the count of free clusters of f is known
FreeKnown(f) == f.free_clst # maxu32 /\ f.free_clst <= f.n_fatent - 2

\* C37: after every call on a mounted volume free_clst is 0xFFFFFFFF or at
\* most n_fatent - 2, after Mount has taken it from the FSInfo sector too; a
\* create_chain that returns a cluster takes exactly one from a known count
\* that is not 0, and remove_chain adds exactly one to a known count for
\* every cluster it frees.
C37_FreeCount ==
    [][(nops' = nops + 1 /\ fs'.fstype # 0)
       => /\ fs'.free_clst = maxu32 \/ fs'.free_clst <= fs'.n_fatent - 2
          /\ (last'.op = "create_chain" /\ fs.fstype # 0 /\ last'.n >= 2
              /\ last'.n < fs.n_fatent /\ FreeKnown(fs) /\ fs.free_clst # 0)
             => fs'.free_clst = fs.free_clst - 1
          /\ (last'.op = "remove_chain" /\ fs.fstype # 0 /\ FreeKnown(fs))
             => fs'.free_clst = fs.free_clst
                  + Cardinality({c \in RemoveWalk(dev, fs, last'.len, {}).freed
                                       \cup {last'.len} :
                       /\ FatEntryIn(dev, fs, c) # 0
                       /\ FatEntryIn(dev', fs', c) = 0})]_vars

\* ------------------------------------------------------ volume geometry
\* Boot sectors that differ in the size of a FAT, the number of FATs, the
\* sectors per cluster and the total number of sectors are mounted; a file
\* is opened on what was mounted.
MaxGeometry == 3
GeoFatSizes == {FATSz32, 1, 2147483632}
GeoFats == {1, 2, 3}
GeoClusterSizes == {0, 1, ClusterSize, 3, MaxClusterSize}
GeoTotals == {TotSec32, DataBase, 100}
ImageGeometry(fsz, nfats, csize, total) ==
    DevPut(Image, 0,
           Puts(BootSector,
                PutUint32(bpbFATSz32, fsz) \o <<<<bpbNumFATs, nfats>>>>
                \o <<<<bpbSecPerClus, csize>>>> \o PutUint32(bpbTotSec32, total)))
InitGeometry ==
    \E fsz \in GeoFatSizes, nfats \in GeoFats, csize \in GeoClusterSizes,
       total \in GeoTotals :
        InitOn(ImageGeometry(fsz, nfats, csize, total), RootFileData)
NextGeometry ==
    \/ CallMount(MaxGeometry, {SectorSize}, {ModeRead})
    \/ CallOpenFile(MaxGeometry, {<<Name.rootfile>>}, {ModeRead})

SpecGeometry == InitGeometry /\ [][NextGeometry]_vars

\* the number of sectors of the volume that the boot sector at volbase gives
SectorsTotalOf(d, f) ==
    IF GetU16(DevGet(d, f.volbase), bpbTotSec16) # 0
    THEN GetU16(DevGet(d, f.volbase), bpbTotSec16)
    ELSE GetU32(DevGet(d, f.volbase), bpbTotSec32)

\* C38: on a mounted volume the cluster size is a power of two that is not
\* 0, the FAT copies end at or before the data area (fatbase + fsize * nFATs
\* <= database, as numbers and not modulo 2^32) and the clusters end at or
\* before the end of the volume (database + (n_fatent - 2) * csize <= volbase
\* + total sectors); a boot sector that cannot give this is not mounted.
C38_GeometryConsistent ==
    fs.fstype # 0
    => /\ fs.csize > 0 /\ BitAnd(fs.csize, fs.csize - 1) = 0
       /\ fs.database >= fs.fatbase
       /\ fs.fsize <= (fs.database - fs.fatbase) \div fs.nFATs
       /\ fs.database <= fs.volbase + SectorsTotalOf(dev, fs)
       /\ fs.n_fatent - 2 <= (fs.volbase + SectorsTotalOf(dev, fs) - fs.database) \div fs.csize

\* ------------------------------------------------- long names in old slots
\* Files with long names are created in the root directory as formatted and
\* in a root directory with a run of three deleted entries that still hold
\* the start cluster and the size of the files they were.
MaxReuse == 4
Removed(c) == [name |-> <<mskDDEM, c>>, attr |-> amARC, clust |-> 9, size |-> 7]
ReusedEntries ==
    RootEntries \o <<Removed(66), Removed(67), Removed(68)>>
    \o << [name |-> <<70, 49>>, attr |-> amARC, clust |-> 0, size |-> 0] >>
ImageReused ==
    DevPutN(Image, DataBase,
            [j \in 1..ClusterSize |-> DirSectorOf(ReusedEntries, j - 1)], 1)
LongPaths == {<<Spaced(1)>>, <<Name.long>>}
InitReuse == \E image \in {Image, ImageReused} : InitOn(image, RootFileData)
NextReuse ==
    \/ CallMount(MaxReuse, {SectorSize}, {ModeRW})
    \/ CallOpenFile(MaxReuse, LongPaths \cup {<<Name.plain>>},
                    {ModeRead, faCreateNew + ModeWrite})
    \/ CallClose(MaxReuse)

SpecReuse == InitReuse /\ [][NextReuse]_vars

\* the entry k slots before the entry of the open file, in the volume after
\* the step
EntryBefore(k) ==
    Bytes(SectIn(dev', fs', fp'.dir_sect), fp'.dir_ptr - k * sizeDirEntry, sizeDirEntry)

\* C39: when OpenFile creates a file whose name of len units needs a long
\* name, register writes ceil(len / 13) long-name entries directly before the
\* short entry and no other slot: the entry k slots before it has ordinal k,
\* with 0x40 added in the one farthest from it, attribute 0x0F, type 0,
\* first-cluster-low 0 and as checksum sum_sfn of the short entry.
C39_LongEntriesWritten ==
    [][(nops' = nops + 1 /\ last'.op = "OpenFile" /\ last'.err = frOK
        /\ Has(last'.mode, faCreateNew) /\ last'.path \in LongPaths)
       => LET n == (Len(last'.path[1]) + 12) \div 13
              sfn == EntryBefore(0)
          IN  /\ fp'.dir_ptr >= n * sizeDirEntry
              /\ {SlotPos(x) : x \in SlotsChanged}
                 \subseteq (SlotPos(<<fp'.dir_sect, fp'.dir_ptr \div sizeDirEntry>>) - n)
                           ..SlotPos(<<fp'.dir_sect, fp'.dir_ptr \div sizeDirEntry>>)
              /\ \A k \in 1..n :
                   /\ EntryBefore(k)[ldirOrdOff + 1] = (IF k = n THEN k + mskLLEF ELSE k)
                   /\ EntryBefore(k)[ldirAttrOff + 1] = amLFN
                   /\ EntryBefore(k)[ldirTypeOff + 1] = 0
                   /\ EntryBefore(k)[ldirChksumOff + 1] = sum_sfn(SubSeq(sfn, 1, 11))
                   /\ EntryBefore(k)[ldirFstClusLO_Off + 1] = 0
                   /\ EntryBefore(k)[ldirFstClusLO_Off + 2] = 0]_vars

\* ------------------------------------------------------ partitioned devices
\* Devices whose sector 0 is a master boot record with the 0xAA55 signature,
\* boot code that starts with one of five bytes and one of five partition
\* tables are mounted; FAT32 volumes start at sectors 8 and 16, sector 24
\* holds no boot sector.
MaxPart == 3
PartFirstBytes == {0, 250, 235, 233, 232}
PartTables == {<<8, 0, 0, 0>>, <<0, 16, 0, 0>>, <<24, 16, 8, 0>>, <<24, 0, 0, 24>>,
               <<0, 0, 0, 8>>}
MBRSector(b, t) ==
    Puts(EmptySect,
         <<<<bsJmpBoot, b>>>>
         \o PutUint32(offsetMBRTable + 8, t[1]) \o PutUint32(offsetMBRTable + 24, t[2])
         \o PutUint32(offsetMBRTable + 40, t[3]) \o PutUint32(offsetMBRTable + 56, t[4])
         \o PutUint16(bs55AA, 43605))
ImagePart(b, t) ==
    (0 :> MBRSector(b, t)) @@ (8 :> BootSector) @@ (9 :> FSInfoSector)
    @@ (16 :> BootSector) @@ (17 :> FSInfoSector)
InitPart ==
    \E b \in PartFirstBytes, t \in PartTables : InitOn(ImagePart(b, t), RootFileData)
NextPart ==
    \/ CallMount(MaxPart, {SectorSize}, {ModeRead, ModeRW})
    \/ CallOpenDir(MaxPart, {<<>>})

SpecPart == InitPart /\ [][NextPart]_vars

\* the start sectors of the four partition entries of the device d
PartStarts(d) == [i \in 1..4 |-> GetU32(DevGet(d, 0), offsetMBRTable + 16 * (i - 1) + 8)]
\* sector l of d is the boot sector of a FAT32 volume
IsFatBoot(d, l) ==
    /\ GetU16(DevGet(d, l), bs55AA) = 43605
    /\ Get(DevGet(d, l), bsJmpBoot) \in {235, 233, 232}
    /\ Get(DevGet(d, l), bsFilSysType32) = Str.fat32
\* the partition entries of d that hold a FAT32 volume
FatParts(d) == {i \in 1..4 : PartStarts(d)[i] > 0 /\ IsFatBoot(d, PartStarts(d)[i])}

\* C40: on a device whose sector 0 has the 0xAA55 signature and is no FAT32
\* or exFAT boot sector and no protective MBR, whatever its first byte, Mount
\* mounts the volume of the first partition entry, in ascending order, whose
\* start is not 0 and whose first sector is a FAT boot sector; it returns
\* no-filesystem when no entry is one.
C40_FirstFatPartition ==
    [][(nops' = nops + 1 /\ last'.op = "Mount"
        /\ GetU16(DevGet(dev, 0), bs55AA) = 43605 /\ ~IsFatBoot(dev, 0)
        /\ Get(DevGet(dev, 0), bsOEMName) # Str.exfat
        /\ Get(DevGet(dev, 0), offsetMBRTable + 4) # 238)
       => IF FatParts(dev) = {} THEN last'.err = frNoFilesystem /\ fs'.fstype = 0
          ELSE /\ last'.err = frOK
               /\ fs'.fstype = fstypeFAT32
               /\ \E i \in FatParts(dev) :
                    /\ \A j \in FatParts(dev) : i <= j
                    /\ fs'.volbase = PartStarts(dev)[i]]_vars
====
